---- MODULE Spec2Model ----
(***************************************************************************)
(* Face detection and alignment (meefik/face-alignment).                   *)
(*                                                                         *)
(* The module models the parts of the repository, each with its own        *)
(* specification over the shared variables:                                *)
(*   SpecIntegral  Image.computeIntegralImage and its helpers              *)
(*                 (src/public/cv/detector.js, first "cv/image" module)    *)
(*   SpecGray      Image.grayscale, both the packed-integer and the        *)
(*                 floating-point variant                                  *)
(*   SpecCrop      cropFace of the node pipeline (src/unnamed/part_000)    *)
(*   SpecFace      detectFace of the node pipeline (src/unnamed/part_000)  *)
(*                 up to the callback of main                              *)
(*   SpecDetectEyes  detectEyes of the node pipeline, on a face of any size *)
(*   SpecEye       the choice of one eye among the detections of a region, *)
(*                 in the browser (src/public/app.js) and in the node      *)
(*                 pipeline                                                *)
(*   SpecLoad      the cascade converter (src/unnamed/part_001)            *)
(*   SpecDetector  the Detector facade (src/public/cv/detector.js)         *)
(*   SpecEqualize, SpecGradient, SpecFindMax, SpecConvolve                 *)
(*                 primitives of the "cv/image" modules                    *)
(*   SpecSumTable  computeIntegralImage asked for the upright table only   *)
(*   SpecMerge     the grouping of overlapping detections of               *)
(*                 "cv/violajones", from its description                   *)
(*   SpecScan, SpecScanFair                                                *)
(*                 the multi-scale scan and the per-window cascade of      *)
(*                 "cv/violajones", from its description, with the         *)
(*                 options the Detector facade passes                      *)
(*   SpecLoop      the browser's frame loop (src/public/app.js)            *)
(* JavaScript arrays are functions over 0..n-1, so index arithmetic reads  *)
(* as in the source.                                                       *)
(***************************************************************************)
EXTENDS Integers, Sequences, FiniteSets, TLC

VARIABLES
    \* ---- Image.computeIntegralImage ----
    pixels,                   \* the grayscale plane, 0..width*height-1 -> pixel
    width, height,            \* the plane's dimensions
    args,                     \* the optional arguments actually passed: a sequence of
                              \* length arguments.length - 3, TRUE = an array, FALSE = null/undefined
    opt_integralImage,        \* the four output buffers (empty when not passed)
    opt_integralImageSquare,
    opt_tiltedIntegralImage,
    opt_integralImageSobel,
    iiState,                  \* "ready" | "returned" | "threw" ("off" outside SpecIntegral)
    \* ---- Image.grayscale ----
    gsIn,                     \* the RGBA bytes handed to grayscale, 0..4*len-1 -> byte
    gsVariant,                \* "int" (detector.js:312) | "float" (detector.js:610)
    fillRGBA,                 \* the fillRGBA argument
    gsOut,                    \* the array returned by the first conversion
    gsOut2,                   \* the array returned by converting gsOut again
    gsState,                  \* "ready" | "once" | "twice" ("off" outside SpecGray)
    \* ---- cropFace ----
    img,                      \* [width, height] of the source matrix
    eyeLeft, eyeRight,        \* <<x, y>>
    offsetPercent,            \* <<side, top>> in quarters (2 = 0.5)
    destSize,                 \* the destSize argument, 0 = not supplied
    crop,                     \* the locals of cropFace once it ran
    square,                   \* the matrix cropFace returns: its size after the resize and
                              \* the number of source pixels pasted into the white canvas
    cropState,                \* "ready" | "done" | "error" ("off" outside SpecCrop)
    \* ---- detectFace ----
    faces,                    \* the detections handed to the detectObject callback
    found,                    \* index into faces of the selected face, 0 = undefined
    biggest,                  \* the largest area the selection loop saw
    leftRegion, rightRegion,  \* the eye search regions detectEyes cut from the face
    faceState,                \* "start" | "detecting" | "leftEye" | "nothing" | "threw" |
                              \* "rightEye" | "saved" | "cropError" ("off" outside SpecFace)
    leftEyes, rightEyes,      \* the detections handed to the two detectEyeCenter callbacks
    leftEye, rightEye,        \* the eye centres detectEyes passes on, relative to the face
    data,                     \* what main's callback received: << >>, or <<data>> once called
    \* ---- the choice of an eye ----
    eyes,                     \* the detections of one eye region
    eyeImpl,                  \* "browser" (app.js:64) | "node" (part_000:149)
    rect,                     \* the face rectangle the region was cut from (browser)
    eyeFound,                 \* the result: << >> = none, <<eye>> otherwise
    eyeState,                 \* "ready" | "done" ("off" outside SpecEye)
    \* ---- the cascade converter ----
    xml,                      \* the cascade file as the XML parser delivers it
    arr,                      \* the array printed on the standard output, << >> before
    loadState,                \* "ready" | "printed" | "error" | "threw" ("off" outside SpecLoad)
    \* ---- Detector ----
    options,                  \* the options argument of the constructor
    detector,                 \* this.options of the constructed Detector
    forwarded,                \* the arguments ViolaJones.detect was called with, << >> before
    detState,                 \* "new" | "constructed" | "detecting" ("off" outside SpecDetector)
    \* ---- primitives of cv/image ----
    prim,                     \* the primitive that is called
    plane,                    \* its first argument: a 1-channel array, 0..n-1 -> value
    planeWidth, planeHeight,  \* the width and height arguments
    opts,                     \* the remaining arguments
    out,                      \* the value returned
    primState,                \* "ready" | "returned" ("off" outside the primitives' specifications)
    \* ---- the multi-scale scan of cv/violajones ----
    cascade,                  \* [windowW, windowH, thresholds]: one stageThreshold per stage
    scene,                    \* what the image holds at the origin: [totals, edgePass]
    scale,                    \* the scale of the scan, the fraction [num, den]
    winX, winY,               \* the position of the scan window
    winState,                 \* "none" | "Entering" | "EdgeRejected" | "VarianceComputed" |
                              \* "Stage" | "Rejected" | "Accepted"
    stageIndex,               \* the stage the window is in
    evaluated,                \* the stages evaluated for the window, in order
    recorded,                 \* the rectangles recorded so far
    neighbors,                \* the neighbors option of the merge
    detections,               \* the merged rectangles, << >> before
    scanState,                \* "idle" | "scale" | "window" | "merge" | "done" ("off" outside)
    \* ---- the frame loop of the browser applications ----
    loopImpl,                 \* "app" (app.js) | "part_003" | "part_004"
    imageModule,              \* which define("cv/image") of detector.js the loader
                              \* hands to Detector: "first" | "second"
    pendingTicks,             \* the tick callbacks waiting for an animation frame
    plays,                    \* the play/playing events delivered so far
    ticks,                    \* the tick calls made so far
    canvasSized,              \* canvas.width and canvas.height are both non-zero
    frame,                    \* how the last tick ended, "none" before
    loopState                 \* "waiting" | "running" ("off" outside SpecLoop)

integralVars == <<pixels, width, height, args, opt_integralImage, opt_integralImageSquare,
                  opt_tiltedIntegralImage, opt_integralImageSobel, iiState>>
grayVars == <<gsIn, gsVariant, fillRGBA, gsOut, gsOut2, gsState>>
cropVars == <<img, eyeLeft, eyeRight, offsetPercent, destSize, crop, square, cropState>>
faceVars == <<faces, found, biggest, leftRegion, rightRegion, faceState,
              leftEyes, rightEyes, leftEye, rightEye, data>>
eyeVars == <<eyes, eyeImpl, rect, eyeFound, eyeState>>
loadVars == <<xml, arr, loadState>>
detectorVars == <<options, detector, forwarded, detState>>
primVars == <<prim, plane, planeWidth, planeHeight, opts, out, primState>>
scanVars == <<cascade, scene, scale, winX, winY, winState, stageIndex, evaluated, recorded,
              neighbors, detections, scanState>>
loopVars == <<loopImpl, imageModule, pendingTicks, plays, ticks, canvasSized, frame, loopState>>
vars == <<integralVars, grayVars, cropVars, faceVars, eyeVars, loadVars, detectorVars,
          primVars, scanVars, loopVars>>

\* What the actions of each part leave alone.
restOfIntegral == <<grayVars, cropVars, faceVars, eyeVars, loadVars, detectorVars, primVars,
    scanVars, loopVars>>
restOfGray == <<integralVars, cropVars, faceVars, eyeVars, loadVars, detectorVars, primVars,
    scanVars, loopVars>>
restOfCrop == <<integralVars, grayVars, faceVars, eyeVars, loadVars, detectorVars, primVars,
    scanVars, loopVars>>
restOfFace == <<integralVars, grayVars, cropVars, eyeVars, loadVars, detectorVars, primVars,
    scanVars, loopVars>>
restOfEye == <<integralVars, grayVars, cropVars, faceVars, loadVars, detectorVars, primVars,
    scanVars, loopVars>>
restOfLoad == <<integralVars, grayVars, cropVars, faceVars, eyeVars, detectorVars, primVars,
    scanVars, loopVars>>
restOfDetector == <<integralVars, grayVars, cropVars, faceVars, eyeVars, loadVars, primVars,
    scanVars, loopVars>>
restOfPrim == <<integralVars, grayVars, cropVars, faceVars, eyeVars, loadVars, detectorVars,
    scanVars, loopVars>>
restOfScan == <<integralVars, grayVars, cropVars, faceVars, eyeVars, loadVars, primVars,
                loopVars>>
restOfLoop == <<integralVars, grayVars, cropVars, faceVars, eyeVars, loadVars, detectorVars,
                primVars, scanVars>>

\* ---- bounds of the model ----
MaxW == 2          \* widest plane
MaxH == 2          \* tallest plane
MaxPix == 1        \* largest pixel value of the enumerated planes
Garbage == 7       \* what a reused output buffer holds before the call

Empty == [k \in {} |-> 0]

\* The parts a specification does not exercise stay parked in these values.
IntegralOff ==
    /\ pixels = Empty /\ width = 0 /\ height = 0 /\ args = << >>
    /\ opt_integralImage = Empty /\ opt_integralImageSquare = Empty
    /\ opt_tiltedIntegralImage = Empty /\ opt_integralImageSobel = Empty
    /\ iiState = "off"
GrayOff ==
    /\ gsIn = Empty /\ gsVariant = "int" /\ fillRGBA = FALSE
    /\ gsOut = Empty /\ gsOut2 = Empty /\ gsState = "off"
CropOff ==
    /\ img = [width |-> 0, height |-> 0]
    /\ eyeLeft = <<0, 0>> /\ eyeRight = <<0, 0>> /\ offsetPercent = <<2, 2>>
    /\ destSize = 0 /\ crop = [cropEdge |-> 0] /\ square = [width |-> 0, height |-> 0, pasted |-> 0]
    /\ cropState = "off"
NoRegion == [x |-> 0, y |-> 0, width |-> 0, height |-> 0]
NoPoint == [x |-> 0, y |-> 0, nan |-> FALSE]
FaceOff ==
    /\ faces = << >> /\ found = 0 /\ biggest = 0
    /\ leftRegion = NoRegion /\ rightRegion = NoRegion /\ faceState = "off"
    /\ leftEyes = << >> /\ rightEyes = << >> /\ leftEye = NoPoint /\ rightEye = NoPoint
    /\ data = << >>
EyeOff ==
    /\ eyes = << >> /\ eyeImpl = "node" /\ rect = [x |-> 0, y |-> 0]
    /\ eyeFound = << >> /\ eyeState = "off"
LoadOff == xml = [malformed |-> FALSE] /\ arr = << >> /\ loadState = "off"
DetectorOff ==
    /\ options = << >> /\ detector = << >> /\ forwarded = << >> /\ detState = "off"
PrimOff ==
    /\ prim = "none" /\ plane = Empty /\ planeWidth = 0 /\ planeHeight = 0
    /\ opts = << >> /\ out = << >> /\ primState = "off"
NoScale == [num |-> 0, den |-> 1]
ScanOff ==
    /\ cascade = [windowW |-> 0, windowH |-> 0, thresholds |-> << >>]
    /\ scene = [totals |-> << >>, edgePass |-> FALSE]
    /\ scale = NoScale /\ winX = 0 /\ winY = 0
    /\ winState = "none" /\ stageIndex = 0 /\ evaluated = << >>
    /\ recorded = << >> /\ neighbors = 0 /\ detections = << >> /\ scanState = "off"
LoopOff ==
    /\ loopImpl = "app" /\ imageModule = "first"
    /\ pendingTicks = 0 /\ plays = 0 /\ ticks = 0
    /\ canvasSized = FALSE /\ frame = "none" /\ loopState = "off"
\* The parts added to the four above.
LaterOff == EyeOff /\ LoadOff /\ DetectorOff /\ PrimOff /\ ScanOff /\ LoopOff

(***************************************************************************)
(* Image.computeIntegralImage                                              *)
(***************************************************************************)

\* (A[k] || 0): a read outside the array is undefined, hence 0.
Rd(A, k) == IF k \in DOMAIN A THEN A[k] ELSE 0

Min(a, b) == IF a < b THEN a ELSE b
Max(a, b) == IF a > b THEN a ELSE b

\* Math.sqrt stored into an Int32Array: the integer part of the root.
RECURSIVE IsqrtFrom(_, _)
IsqrtFrom(n, r) == IF (r + 1) * (r + 1) > n THEN r ELSE IsqrtFrom(n, r + 1)
Isqrt(n) == IsqrtFrom(n, 0)

\* sum over cx of pixels[clamped offset] * weightsVector[cx]
RECURSIVE HorizSum(_, _, _, _, _, _)
HorizSum(px, w, x, y, wts, cx) ==
    IF cx >= Len(wts) THEN 0
    ELSE LET halfSide == Len(wts) \div 2
             scx == Min(w - 1, Max(0, x + cx - halfSide))
         IN px[y * w + scx] * wts[cx + 1] + HorizSum(px, w, x, y, wts, cx + 1)

horizontalConvolve(px, w, h, weightsVector) ==
    [o \in 0..(w * h - 1) |-> HorizSum(px, w, o % w, o \div w, weightsVector, 0)]

RECURSIVE VertSum(_, _, _, _, _, _, _)
VertSum(px, w, h, x, y, wts, cy) ==
    IF cy >= Len(wts) THEN 0
    ELSE LET halfSide == Len(wts) \div 2
             scy == Min(h - 1, Max(0, y + cy - halfSide))
         IN px[scy * w + x] * wts[cy + 1] + VertSum(px, w, h, x, y, wts, cy + 1)

verticalConvolve(px, w, h, weightsVector) ==
    [o \in 0..(w * h - 1) |-> VertSum(px, w, h, o % w, o \div w, weightsVector, 0)]

\* separableConvolve with the two weight vectors taken for each other.
separableConvolveSwapped(px, w, h, horizWeights, vertWeights) ==
    LET vertical == verticalConvolve(px, w, h, horizWeights)
    IN horizontalConvolve(vertical, w, h, vertWeights)

separableConvolve(px, w, h, horizWeights, vertWeights) ==
    LET vertical == verticalConvolve(px, w, h, vertWeights)
    IN horizontalConvolve(vertical, w, h, horizWeights)

sobelSignVector == <<-1, 0, 1>>
sobelScaleVector == <<1, 2, 1>>

sobel(px, w, h) ==
    LET vertical == separableConvolve(px, w, h, sobelSignVector, sobelScaleVector)
        horizontal == separableConvolve(px, w, h, sobelScaleVector, sobelSignVector)
    IN [i \in 0..(w * h - 1) |->
           Isqrt(horizontal[i] * horizontal[i] + vertical[i] * vertical[i])]

\* The diagonal neighbour added instead of subtracted.
computePixelValueSATAdded(SAT, w, i, j, pixel) ==
    LET k == i * w + j
    IN [SAT EXCEPT ![k] = Rd(SAT, k - w) + Rd(SAT, k - 1) + pixel + Rd(SAT, k - w - 1)]

\* The left neighbour is read at w - 1 and the diagonal one at w - width - 1,
\* whatever the column j is.
computePixelValueSAT(SAT, w, i, j, pixel) ==
    LET k == i * w + j
    IN [SAT EXCEPT ![k] = Rd(SAT, k - w) + Rd(SAT, k - 1) + pixel - Rd(SAT, k - w - 1)]

computePixelValueRSAT(RSAT, w, i, j, pixel, pixelAbove) ==
    LET k == i * w + j
    IN [RSAT EXCEPT ![k] = Rd(RSAT, k - w - 1) + Rd(RSAT, k - w + 1)
                           - Rd(RSAT, k - w - w) + pixel + pixelAbove]

\* Is the k-th optional argument (1 = sum .. 4 = sobel) an array?
Passed(a, k) == k <= Len(a) /\ a[k]

\* One iteration of the loop body, for the pixel at row i, column j.
IntegralStep(b, px, w, a, pixelsSobel, i, j) ==
    LET k == i * w + j
        pixel == px[k]
        pixelAbove == Rd(px, k - w)
    IN [sum |-> IF Passed(a, 1) THEN computePixelValueSAT(b.sum, w, i, j, pixel)
                ELSE b.sum,
        square |-> IF Passed(a, 2)
                   THEN computePixelValueSAT(b.square, w, i, j, pixel * pixel)
                   ELSE b.square,
        tilted |-> IF Passed(a, 3)
                   THEN computePixelValueRSAT(b.tilted, w, i, j, pixel, pixelAbove)
                   ELSE b.tilted,
        sobel |-> IF Passed(a, 4)
                  THEN computePixelValueSAT(b.sobel, w, i, j, pixelsSobel[k])
                  ELSE b.sobel]

\* The two nested loops, row by row, from linear position k on.
RECURSIVE IntegralLoop(_, _, _, _, _, _, _)
IntegralLoop(b, px, w, h, a, pixelsSobel, k) ==
    IF k >= w * h THEN b
    ELSE IntegralLoop(IntegralStep(b, px, w, a, pixelsSobel, k \div w, k % w),
                      px, w, h, a, pixelsSobel, k + 1)

\* if (arguments.length < 4) throw ...
UsageError(a) == 3 + Len(a) < 4

computeIntegralImage ==
    /\ iiState = "ready"
    /\ IF UsageError(args)
       THEN /\ iiState' = "threw"
            /\ UNCHANGED <<opt_integralImage, opt_integralImageSquare,
                           opt_tiltedIntegralImage, opt_integralImageSobel>>
       ELSE LET pixelsSobel == IF Passed(args, 4) THEN sobel(pixels, width, height)
                               ELSE Empty
                b == IntegralLoop([sum |-> opt_integralImage,
                                   square |-> opt_integralImageSquare,
                                   tilted |-> opt_tiltedIntegralImage,
                                   sobel |-> opt_integralImageSobel],
                                  pixels, width, height, args, pixelsSobel, 0)
            IN /\ opt_integralImage' = b.sum
               /\ opt_integralImageSquare' = b.square
               /\ opt_tiltedIntegralImage' = b.tilted
               /\ opt_integralImageSobel' = b.sobel
               /\ iiState' = "returned"
    /\ UNCHANGED <<pixels, width, height, args, restOfIntegral>>

\* The plane of the spec's scenario S1, [[1,2],[3,4]].
S1Plane == [k \in 0..3 |-> k + 1]

Planes(w, h) ==
    [0..(w * h - 1) -> 0..MaxPix] \cup (IF w = 2 /\ h = 2 THEN {S1Plane} ELSE {})

ArgPatterns == UNION {[1..n -> BOOLEAN] : n \in 0..4}

\* An output buffer: width*height cells holding f when passed, nothing otherwise.
Buffer(a, k, w, h, f) == IF Passed(a, k) THEN [c \in 0..(w * h - 1) |-> f] ELSE Empty

InitIntegral ==
    /\ width \in 1..MaxW
    /\ height \in 1..MaxH
    /\ pixels \in Planes(width, height)
    /\ args \in ArgPatterns
    /\ \E f \in {0, Garbage} :
          /\ opt_integralImage = Buffer(args, 1, width, height, f)
          /\ opt_integralImageSquare = Buffer(args, 2, width, height, f)
          /\ opt_tiltedIntegralImage = Buffer(args, 3, width, height, f)
          /\ opt_integralImageSobel = Buffer(args, 4, width, height, f)
    /\ iiState = "ready"
    /\ GrayOff /\ CropOff /\ FaceOff /\ LaterOff

NextIntegral == computeIntegralImage

SpecIntegral == InitIntegral /\ [][NextIntegral]_vars

MaxSumW == 3       \* widest plane of the rectangle sums
MaxSumH == 3       \* tallest plane of the rectangle sums

\* computeIntegralImage(pixels, width, height, sum) on the planes of 0 and 1,
\* into a new buffer or a reused one.
InitSumTable ==
    /\ width \in 1..MaxSumW
    /\ height \in 1..MaxSumH
    /\ pixels \in [0..(width * height - 1) -> {0, 1}]
    /\ args = <<TRUE>>
    /\ \E f \in {0, Garbage} : opt_integralImage = Buffer(args, 1, width, height, f)
    /\ opt_integralImageSquare = Empty
    /\ opt_tiltedIntegralImage = Empty
    /\ opt_integralImageSobel = Empty
    /\ iiState = "ready"
    /\ GrayOff /\ CropOff /\ FaceOff /\ LaterOff

SpecSumTable == InitSumTable /\ [][NextIntegral]_vars

(***************************************************************************)
(* Image.grayscale                                                         *)
(***************************************************************************)

\* A Uint32 is kept as its two 16-bit halves, [hi, lo], since TLC's integers
\* are 32-bit signed.
\* new Uint32Array(buffer)[i] on a little-endian host: byte 4i is the low byte.
data32(px, i) ==
    [lo |-> px[4 * i] + px[4 * i + 1] * 256,
     hi |-> px[4 * i + 2] + px[4 * i + 3] * 256]

\* (c >>> s) & 0xff for s in {0, 8, 16, 24}
ShiftByte(c, s) ==
    CASE s = 0 -> c.lo % 256
      [] s = 8 -> c.lo \div 256
      [] s = 16 -> c.hi % 256
      [] s = 24 -> c.hi \div 256

\* lumaInt with the last weight one too small, so that the weights sum to 65535.
lumaIntShortWeights(c) ==
    (ShiftByte(c, 16) * 13933 + ShiftByte(c, 8) * 46871 + ShiftByte(c, 0) * 4731) \div 65536

\* luma = ((c >>> 16 & 0xff) * 13933 + (c >>> 8 & 0xff) * 46871 + (c & 0xff) * 4732) >>> 16
lumaInt(c) ==
    (ShiftByte(c, 16) * 13933 + ShiftByte(c, 8) * 46871 + ShiftByte(c, 0) * 4732) \div 65536

\* gray[i] = luma * 0x10101 | c & 0xff000000, as a Uint32
packGray(luma, c) ==
    [lo |-> luma * 257, hi |-> luma + ShiftByte(c, 24) * 256]

\* new Uint8ClampedArray(gray.buffer) over the Uint32Array (fillRGBA) or the
\* Uint8Array (otherwise).
grayscaleInt(px, fill) ==
    LET len == (Cardinality(DOMAIN px)) \div 4
    IN IF fill
       THEN [b \in 0..(4 * len - 1) |->
                LET c == data32(px, b \div 4)
                IN ShiftByte(packGray(lumaInt(c), c), 8 * (b % 4))]
       ELSE [i \in 0..(len - 1) |-> lumaInt(data32(px, i))]

\* pixels[w] * 0.299 + pixels[w + 1] * 0.587 + pixels[w + 2] * 0.114, in thousandths.
valueFloat(px, w) == px[w] * 299 + px[w + 1] * 587 + px[w + 2] * 114

\* The store into the Uint8ClampedArray rounds to the nearest integer.  A value
\* exactly halfway is rounded by the double-precision sum to either side; the
\* inputs of the model leave such values out (see OnTie).
clampRound(v) == IF v % 1000 < 500 THEN v \div 1000 ELSE v \div 1000 + 1

OnTie(r, g, b) == (r * 299 + g * 587 + b * 114) % 1000 = 500

\* The loops run over height * width pixels; the input holds 4 bytes for each.
grayscaleFloat(px, fill) ==
    LET len == (Cardinality(DOMAIN px)) \div 4
    IN IF fill
       THEN [p \in 0..(4 * len - 1) |->
                IF p % 4 = 3 THEN px[p] ELSE clampRound(valueFloat(px, 4 * (p \div 4)))]
       ELSE [p \in 0..(len - 1) |-> clampRound(valueFloat(px, 4 * p))]

grayscaleOf(variant, px, fill) ==
    IF variant = "int" THEN grayscaleInt(px, fill) ELSE grayscaleFloat(px, fill)

\* Image.grayscale(pixels, width, height, fillRGBA)
grayscale ==
    /\ gsState = "ready"
    /\ gsOut' = grayscaleOf(gsVariant, gsIn, fillRGBA)
    /\ gsState' = "once"
    /\ UNCHANGED <<gsIn, gsVariant, fillRGBA, gsOut2, restOfGray>>

\* Image.grayscale(result, width, height, true) on the result of a conversion
\* that filled all four channels.
grayscaleAgain ==
    /\ gsState = "once"
    /\ fillRGBA
    /\ gsOut2' = grayscaleOf(gsVariant, gsOut, TRUE)
    /\ gsState' = "twice"
    /\ UNCHANGED <<gsIn, gsVariant, fillRGBA, gsOut, restOfGray>>

MaxPixels == 1     \* pixels of an enumerated image

\* Channel values sampled at both ends and in the middle of the byte range.
ChanVals == {0, 1, 128, 254, 255}
AlphaVals == {128, 255}

\* One RGBA pixel as <<r, g, b, a>>.
SampledPixels ==
    {<<r, g, b, a>> : r \in ChanVals, g \in ChanVals, b \in ChanVals, a \in AlphaVals}
GrayPixels == {<<l, l, l, 255>> : l \in 0..255}

\* The byte array of the pixels ps[1..n].
Bytes(ps) == [k \in 0..(4 * Len(ps) - 1) |-> ps[(k \div 4) + 1][(k % 4) + 1]]

InitGray ==
    /\ \E n \in 1..MaxPixels :
          \E ps \in [1..n -> SampledPixels] \cup [1..1 -> GrayPixels] :
             /\ \A k \in 1..Len(ps) : ~OnTie(ps[k][1], ps[k][2], ps[k][3])
             /\ gsIn = Bytes(ps)
    /\ gsVariant \in {"int", "float"}
    /\ fillRGBA \in BOOLEAN
    /\ gsOut = Empty /\ gsOut2 = Empty
    /\ gsState = "ready"
    /\ IntegralOff /\ CropOff /\ FaceOff /\ LaterOff

NextGray == grayscale \/ grayscaleAgain

SpecGray == InitGray /\ [][NextGray]_vars

(***************************************************************************)
(* cropFace                                                                *)
(***************************************************************************)

\* calcDistance(p1, p2) squared: the distance itself is Math.sqrt of this.
calcDistance2(p1, p2) ==
    (p1[1] - p2[1]) * (p1[1] - p2[1]) + (p1[2] - p2[2]) * (p1[2] - p2[2])

\* Math.round((q / den) * Math.sqrt(n)) for q >= 0, den > 0: the largest k with
\* k - 1/2 <= (q / den) * sqrt(n), that is k = 0 or (den (2k - 1))^2 <= 4 q^2 n.
RoundsUpTo(q, den, n, k) ==
    k = 0 \/ (den * (2 * k - 1)) * (den * (2 * k - 1)) <= 4 * q * q * n
RoundMulSqrt(q, den, n) ==
    CHOOSE k \in 0..((q * (Isqrt(n) + 1)) \div den + 1) :
        RoundsUpTo(q, den, n, k) /\ ~RoundsUpTo(q, den, n, k + 1)

\* if (!eyeLeft) eyeLeft = [0, 0]
eyeOrDefault(e) == IF e = << >> THEN <<0, 0>> ELSE e
\* if (!offsetPercent) offsetPercent = [0.5, 0.5], in quarters
offsetOrDefault(o) == IF o = << >> THEN <<2, 2>> ELSE o
\* if (!destSize) destSize = 150
destSizeOrDefault(d) == IF d = 0 THEN 150 ELSE d

\* cropEdge with the side offset counted once instead of twice.
cropEdgeOneOffset(n, offsetX) == RoundMulSqrt(1, 1, n) + offsetX

\* var cropEdge = Math.round(distance + 2 * offsetX)
cropEdgeOf(n, offsetX) == RoundMulSqrt(1, 1, n) + 2 * offsetX

\* var cropX = eyeLeft[0] - offsetX; if (cropX < 0) cropX = 0;
cropStart(eye, offset) == IF eye - offset < 0 THEN 0 ELSE eye - offset

\* The crop extent left unclamped.
cropExtentUnclamped(start, cropEdge, size) == cropEdge

\* var cropWidth = cropEdge; if (cropX + cropEdge > width) cropWidth = width - cropX;
cropExtent(start, cropEdge, size) ==
    IF start + cropEdge > size THEN size - start ELSE cropEdge

\* Math.floor((cropEdge - cropWidth) / 2)
pasteStart(cropEdge, extent) == (cropEdge - extent) \div 2

\* The locals of cropFace, as the code computes them from its arguments.
cropLocals(im, eL, eR, off, dst) ==
    LET l == eyeOrDefault(eL)
        r == eyeOrDefault(eR)
        o == offsetOrDefault(off)
        n == calcDistance2(l, r)
        offsetX == RoundMulSqrt(o[1], 4, n)
        offsetY == RoundMulSqrt(o[2], 4, n)
        cropEdge == cropEdgeOf(n, offsetX)
        cropX == cropStart(l[1], offsetX)
        cropY == cropStart(l[2], offsetY)
        cropWidth == cropExtent(cropX, cropEdge, im.width)
        cropHeight == cropExtent(cropY, cropEdge, im.height)
    IN [distance2 |-> n, offsetX |-> offsetX, offsetY |-> offsetY,
        cropEdge |-> cropEdge, cropX |-> cropX, cropY |-> cropY,
        cropWidth |-> cropWidth, cropHeight |-> cropHeight,
        x |-> pasteStart(cropEdge, cropWidth), y |-> pasteStart(cropEdge, cropHeight),
        destSize |-> destSizeOrDefault(dst)]

\* img.roi(x, y, w, h): OpenCV takes the sub-matrix only of a rectangle that
\* lies inside the matrix.
roiFits(x, y, w, h, cols, rows) ==
    /\ 0 <= x /\ 0 <= w /\ x + w <= cols
    /\ 0 <= y /\ 0 <= h /\ y + h <= rows

\* square.resize(destSize, destSize): OpenCV resizes a matrix that has pixels
\* to a size that has pixels.
resizeDefined(cols, rows, dst) == cols > 0 /\ rows > 0 /\ dst > 0

cropFace ==
    /\ cropState = "ready"
    /\ LET c == cropLocals(img, eyeLeft, eyeRight, offsetPercent, destSize)
           roiOk == roiFits(c.cropX, c.cropY, c.cropWidth, c.cropHeight,
                            img.width, img.height)
           copyOk == roiFits(c.x, c.y, c.cropWidth, c.cropHeight, c.cropEdge, c.cropEdge)
           resizeOk == resizeDefined(c.cropEdge, c.cropEdge, c.destSize)
       IN /\ crop' = c
          /\ IF roiOk /\ copyOk /\ resizeOk
             THEN /\ square' = [width |-> c.destSize, height |-> c.destSize,
                                 pasted |-> c.cropWidth * c.cropHeight]
                  /\ cropState' = "done"
             ELSE /\ square' = square
                  /\ cropState' = "error"
    /\ UNCHANGED <<img, eyeLeft, eyeRight, offsetPercent, destSize, restOfCrop>>

MaxImg == 5        \* largest side of an enumerated source image

\* The scenario S5 of the specification: a 400 x 400 source.
S5Img == [width |-> 400, height |-> 400]
S5EyeLeft == <<100, 100>>
S5EyeRight == <<200, 100>>

OffsetChoices == {<< >>, <<2, 2>>, <<0, 0>>, <<1, 2>>, <<2, 4>>}
DestSizeChoices == {0, 3, 150}

InitCrop ==
    /\ \/ /\ img \in [width : 1..MaxImg, height : 1..MaxImg]
          /\ eyeLeft \in ((0..(img.width - 1)) \X (0..(img.height - 1))) \cup {<< >>}
          /\ eyeRight \in ((0..(img.width - 1)) \X (0..(img.height - 1))) \cup {<< >>}
       \/ /\ img = S5Img
          /\ eyeLeft \in {S5EyeLeft, S5EyeRight}
          /\ eyeRight \in {S5EyeLeft, S5EyeRight}
    /\ offsetPercent \in OffsetChoices
    /\ destSize \in DestSizeChoices
    /\ crop = [cropEdge |-> 0]
    /\ square = [width |-> 0, height |-> 0, pasted |-> 0]
    /\ cropState = "ready"
    /\ IntegralOff /\ GrayOff /\ FaceOff /\ LaterOff

NextCrop == cropFace

SpecCrop == InitCrop /\ [][NextCrop]_vars

(***************************************************************************)
(* detectFace                                                              *)
(***************************************************************************)

\* Math.round(w * num / den) for w >= 0
RoundFrac(num, den, w) == (2 * num * w + den) \div (2 * den)

\* if (area >= biggest): the later of two equal faces wins.
biggerOrEqual(area, big) == area >= big

\* if (area > biggest)
bigger(area, big) == area > big

\* The selection loop of the detectObject callback from index i on; sel is the
\* index of found (0 = undefined), big the value of biggest.
RECURSIVE faceLoop(_, _, _, _)
faceLoop(fs, i, sel, big) ==
    IF i > Len(fs) THEN [found |-> sel, biggest |-> big]
    ELSE LET area == fs[i].width * fs[i].height
         IN IF bigger(area, big) THEN faceLoop(fs, i + 1, i, area)
            ELSE faceLoop(fs, i + 1, sel, big)

\* A left region reaching 0.45 of the width from its start: width 0.45 w instead
\* of 0.30 w.
leftRegionWide(w, h) ==
    [x |-> RoundFrac(15, 100, w), y |-> RoundFrac(25, 100, h),
     width |-> RoundFrac(45, 100, w), height |-> RoundFrac(25, 100, h)]

\* detectEyes: the search region of the left eye in a face of w x h
leftRegionOf(w, h) ==
    [x |-> RoundFrac(15, 100, w), y |-> RoundFrac(25, 100, h),
     width |-> RoundFrac(30, 100, w), height |-> RoundFrac(25, 100, h)]

\* Math.round(width - width * EYE_OFFSET_SIDE - width * EYE_WIDTH) = round(0.55 w)
rightRegionOf(w, h) ==
    [x |-> RoundFrac(55, 100, w), y |-> RoundFrac(25, 100, h),
     width |-> RoundFrac(30, 100, w), height |-> RoundFrac(25, 100, h)]

\* detectFace(img, callback): hands the image to img.detectObject.
detectFace ==
    /\ faceState = "start"
    /\ faceState' = "detecting"
    /\ UNCHANGED <<faces, found, biggest, leftRegion, rightRegion,
                   leftEyes, rightEyes, leftEye, rightEye, data, restOfFace>>

MaxFaces == 2      \* longest list of detections
MaxFaceSide == 3   \* largest side of a detected rectangle

\* The rectangles a detector can report: positive sides, inside the image.  The
\* pipeline reads a detection's position only to cut the face and to report it,
\* so the enumerated ones vary in x and lie on the top edge.
Detections ==
    {r \in [x : 0..1, y : {0}, width : 2..MaxFaceSide, height : 2..MaxFaceSide] :
        r.x + r.width <= img.width /\ r.y + r.height <= img.height}

\* The callback of img.detectObject(cv.FACE_CASCADE, ...): selects the face and,
\* if there is one, runs detectEyes up to the detection of the left eye.  With no
\* face selected it returns without calling the callback.
faceDetected ==
    /\ faceState = "detecting"
    /\ \E err \in BOOLEAN, n \in 0..MaxFaces :
          \E fs \in [1..n -> Detections] :
             IF err
             THEN /\ faceState' = "threw"
                  /\ UNCHANGED <<faces, found, biggest, leftRegion, rightRegion>>
             ELSE LET sel == faceLoop(fs, 1, 0, 0)
                  IN /\ faces' = fs
                     /\ found' = sel.found
                     /\ biggest' = sel.biggest
                     /\ IF sel.found # 0
                        THEN /\ leftRegion' = leftRegionOf(fs[sel.found].width,
                                                           fs[sel.found].height)
                             /\ rightRegion' = rightRegionOf(fs[sel.found].width,
                                                             fs[sel.found].height)
                             /\ faceState' = "leftEye"
                        ELSE /\ UNCHANGED <<leftRegion, rightRegion>>
                             /\ faceState' = "nothing"
    /\ UNCHANGED <<leftEyes, rightEyes, leftEye, rightEye, data, restOfFace>>

MaxEyes == 2       \* longest list of eye detections

\* The rectangles the eye detector can report in a region of w x h.
EyeRectsIn(w, h) ==
    {r \in [x : 0..(w - 1), y : 0..(h - 1), width : 1..w, height : 1..h] :
        r.x + r.width <= w /\ r.y + r.height <= h}

\* Math.round(s2 / 2 / n) for s2 >= 0, n > 0
RoundHalves(s2, n) == (s2 + n) \div (2 * n)

\* The sum over the detections of twice (eye.x + eye.width / 2).
RECURSIVE CenterSumX(_, _)
CenterSumX(es, i) ==
    IF i > Len(es) THEN 0 ELSE 2 * es[i].x + es[i].width + CenterSumX(es, i + 1)
RECURSIVE CenterSumY(_, _)
CenterSumY(es, i) ==
    IF i > Len(es) THEN 0 ELSE 2 * es[i].y + es[i].height + CenterSumY(es, i + 1)

\* The callback of img.detectObject(cv.EYE_CASCADE, ...): the rounded mean of
\* the centres of all detections; 0 / 0 is NaN when there is none.
eyeCenter(es) ==
    IF Len(es) = 0 THEN [x |-> 0, y |-> 0, nan |-> TRUE]
    ELSE [x |-> RoundHalves(CenterSumX(es, 1), Len(es)),
          y |-> RoundHalves(CenterSumY(es, 1), Len(es)), nan |-> FALSE]

\* leftX = leftRegion.x + leftX; leftY = leftRegion.y + leftY (NaN stays NaN)
shifted(dx, dy, c) ==
    IF c.nan THEN c ELSE [x |-> dx + c.x, y |-> dy + c.y, nan |-> FALSE]

\* The object detectFace hands to its callback.
dataOf(face, l, r) ==
    [face |-> face,
     eyes |-> [left |-> shifted(face.x, face.y, l), right |-> shifted(face.x, face.y, r)],
     \* calcDistance(left, right), squared; calcAngle's arguments of Math.atan2
     distance2 |-> IF l.nan \/ r.nan THEN 0
                   ELSE calcDistance2(<<l.x, l.y>>, <<r.x, r.y>>),
     angle |-> IF l.nan \/ r.nan THEN <<0, 0>> ELSE <<r.y - l.y, r.x - l.x>>,
     nan |-> l.nan \/ r.nan]

\* The left-eye callback calling the callback of detectEyes itself, before the
\* right eye is looked for.
leftEyeCenterCallsBack ==
    /\ faceState = "leftEye"
    /\ \E err \in BOOLEAN, n \in 0..MaxEyes :
          \E es \in [1..n -> EyeRectsIn(leftRegion.width, leftRegion.height)] :
             IF err
             THEN /\ faceState' = "threw"
                  /\ UNCHANGED <<leftEyes, leftEye, data>>
             ELSE LET l == shifted(leftRegion.x, leftRegion.y, eyeCenter(es))
                  IN /\ leftEyes' = es
                     /\ leftEye' = l
                     /\ data' = <<dataOf(faces[found], l, NoPoint)>>
                     /\ faceState' = "rightEye"
    /\ UNCHANGED <<faces, found, biggest, leftRegion, rightRegion, rightEyes, rightEye,
                   restOfFace>>

\* The callback of detectEyeCenter(leftEyeROI, ...), after the detection in the
\* left region: keeps the left centre and starts the detection in the right one.
leftEyeCenter ==
    /\ faceState = "leftEye"
    /\ \E err \in BOOLEAN, n \in 0..MaxEyes :
          \E es \in [1..n -> EyeRectsIn(leftRegion.width, leftRegion.height)] :
             IF err
             THEN /\ faceState' = "threw"
                  /\ UNCHANGED <<leftEyes, leftEye>>
             ELSE /\ leftEyes' = es
                  /\ leftEye' = shifted(leftRegion.x, leftRegion.y, eyeCenter(es))
                  /\ faceState' = "rightEye"
    /\ UNCHANGED <<faces, found, biggest, leftRegion, rightRegion, rightEyes, rightEye,
                   data, restOfFace>>

\* cropFace(img, [left.x, left.y], [right.x, right.y]) of main returns a matrix.
cropReturns(im, l, r) ==
    LET c == cropLocals(im, <<l.x, l.y>>, <<r.x, r.y>>, << >>, 0)
    IN /\ roiFits(c.cropX, c.cropY, c.cropWidth, c.cropHeight, im.width, im.height)
       /\ roiFits(c.x, c.y, c.cropWidth, c.cropHeight, c.cropEdge, c.cropEdge)
       /\ resizeDefined(c.cropEdge, c.cropEdge, c.destSize)

\* The callback of detectEyeCenter(rightEyeROI, ...): completes the eyes, calls
\* the callback of detectEyes, which calls the one of detectFace, which is
\* main's: it logs the data, crops the face and saves it.  What the native
\* matrix functions do with NaN arguments is not in the sources: cropFace may
\* return or fail then.
rightEyeCenter ==
    /\ faceState = "rightEye"
    /\ \E err \in BOOLEAN, n \in 0..MaxEyes :
          \E es \in [1..n -> EyeRectsIn(rightRegion.width, rightRegion.height)] :
             IF err
             THEN /\ faceState' = "threw"
                  /\ UNCHANGED <<rightEyes, rightEye, data>>
             ELSE LET r == shifted(rightRegion.x, rightRegion.y, eyeCenter(es))
                      d == dataOf(faces[found], leftEye, r)
                  IN /\ rightEyes' = es
                     /\ rightEye' = r
                     /\ data' = <<d>>
                     /\ IF d.nan
                        THEN faceState' \in {"saved", "cropError"}
                        ELSE faceState' = IF cropReturns(img, d.eyes.left, d.eyes.right)
                                          THEN "saved" ELSE "cropError"
    /\ UNCHANGED <<faces, found, biggest, leftRegion, rightRegion, leftEyes, leftEye,
                   restOfFace>>

InitFace ==
    /\ img \in [width : 1..MaxImg, height : 1..MaxImg]
    /\ eyeLeft = <<0, 0>> /\ eyeRight = <<0, 0>> /\ offsetPercent = <<2, 2>>
    /\ destSize = 0 /\ crop = [cropEdge |-> 0]
    /\ square = [width |-> 0, height |-> 0, pasted |-> 0]
    /\ cropState = "off"
    /\ faces = << >> /\ found = 0 /\ biggest = 0
    /\ leftRegion = NoRegion /\ rightRegion = NoRegion
    /\ faceState = "start"
    /\ leftEyes = << >> /\ rightEyes = << >> /\ leftEye = NoPoint /\ rightEye = NoPoint
    /\ data = << >>
    /\ IntegralOff /\ GrayOff /\ LaterOff

NextFace == detectFace \/ faceDetected \/ leftEyeCenter \/ rightEyeCenter

SpecFace == InitFace /\ [][NextFace]_vars

(***************************************************************************)
(* detectEyes on faces of every size                                       *)
(***************************************************************************)

\* detectEyes(img, callback) up to the detection it issues for the left eye:
\* img is the face, the two regions are rounded from its size and cut from it
\* with img.roi, which throws on a rectangle that leaves the matrix.  The eye
\* callbacks are leftEyeCenter and rightEyeCenter of the face pipeline.
detectEyes ==
    /\ faceState = "face"
    /\ LET l == leftRegionOf(img.width, img.height)
           r == rightRegionOf(img.width, img.height)
       IN IF ~roiFits(l.x, l.y, l.width, l.height, img.width, img.height)
          THEN /\ leftRegion' = l
               /\ UNCHANGED rightRegion
               /\ faceState' = "threw"
          ELSE /\ leftRegion' = l
               /\ rightRegion' = r
               /\ faceState' = IF roiFits(r.x, r.y, r.width, r.height,
                                          img.width, img.height)
                               THEN "searching" ELSE "threw"
    /\ UNCHANGED <<faces, found, biggest, leftEyes, rightEyes, leftEye, rightEye,
                   data, restOfFace>>

MaxFace == 40      \* largest side of a face handed to detectEyes

InitDetectEyes ==
    /\ img \in [width : 1..MaxFace, height : 1..MaxFace]
    /\ eyeLeft = <<0, 0>> /\ eyeRight = <<0, 0>> /\ offsetPercent = <<2, 2>>
    /\ destSize = 0 /\ crop = [cropEdge |-> 0]
    /\ square = [width |-> 0, height |-> 0, pasted |-> 0]
    /\ cropState = "off"
    /\ faces = << >> /\ found = 0 /\ biggest = 0
    /\ leftRegion = NoRegion /\ rightRegion = NoRegion
    /\ faceState = "face"
    /\ leftEyes = << >> /\ rightEyes = << >> /\ leftEye = NoPoint /\ rightEye = NoPoint
    /\ data = << >>
    /\ IntegralOff /\ GrayOff /\ LaterOff

NextDetectEyes == detectEyes

SpecDetectEyes == InitDetectEyes /\ [][NextDetectEyes]_vars

(***************************************************************************)
(* The choice of an eye among the detections of one region                 *)
(***************************************************************************)

\* if (!res || eye.width * eye.height > res.width * res.height)
eyeBeats(res, eye) ==
    res = << >> \/ eye.width * eye.height > res[1].width * res[1].height

\* The callback handed to reduce: it returns the new candidate when the test
\* holds and has no return statement otherwise, so that reduce goes on with
\* undefined.
eyeCallback(res, eye, r) ==
    IF eyeBeats(res, eye)
    THEN <<[x |-> eye.x + r.x, y |-> eye.y + r.y, width |-> eye.width, height |-> eye.height]>>
    ELSE << >>

\* eyeDetector.detect(leftEyeROI).reduce(callback, null), from index i on.
RECURSIVE eyeReduce(_, _, _, _)
eyeReduce(es, i, res, r) ==
    IF i > Len(es) THEN res ELSE eyeReduce(es, i + 1, eyeCallback(res, es[i], r), r)

\* tick, lines 64-71: the left eye of the face rect.
leftEyeOfTick ==
    /\ eyeState = "ready" /\ eyeImpl = "browser"
    /\ eyeFound' = eyeReduce(eyes, 1, << >>, rect)
    /\ eyeState' = "done"
    /\ UNCHANGED <<eyes, eyeImpl, rect, restOfEye>>

\* detectEyeCenter: the detectObject callback hands the centre to its callback.
detectEyeCenter ==
    /\ eyeState = "ready" /\ eyeImpl = "node"
    /\ eyeFound' = <<eyeCenter(eyes)>>
    /\ eyeState' = "done"
    /\ UNCHANGED <<eyes, eyeImpl, rect, restOfEye>>

\* The eye region of the enumerated inputs.
EyeRegion == [width |-> 2, height |-> 2]
\* The corners of the enumerated face rectangles.
FaceCorners == {[x |-> 0, y |-> 0], [x |-> 3, y |-> 1]}

InitEye ==
    /\ \E n \in 0..(MaxEyes + 1) :
          eyes \in [1..n -> EyeRectsIn(EyeRegion.width, EyeRegion.height)]
    /\ eyeImpl \in {"browser", "node"}
    /\ rect \in FaceCorners
    /\ eyeFound = << >>
    /\ eyeState = "ready"
    /\ IntegralOff /\ GrayOff /\ CropOff /\ FaceOff /\ LoadOff /\ DetectorOff /\ PrimOff
    /\ ScanOff /\ LoopOff

NextEye == leftEyeOfTick \/ detectEyeCenter

SpecEye == InitEye /\ [][NextEye]_vars

(***************************************************************************)
(* The cascade converter (haar_convert)                                    *)
(***************************************************************************)

\* The tokens of a text, by what Number and parseFloat make of them: the
\* numeral of n (both give n), a word that is no number (both give NaN), a
\* numeral followed by letters such as "7abc" (Number gives NaN, parseFloat
\* the prefix n) and a hexadecimal literal such as "0x10" (Number gives n,
\* parseFloat 0).
Num(n) == [kind |-> "num", v |-> n]
Text == [kind |-> "str", v |-> 0]
Prefixed(n) == [kind |-> "prefixed", v |-> n]
Hex(n) == [kind |-> "hex", v |-> n]

\* The values of an array element: a number Num(n), NaN, undefined, or a
\* string: a one-token string is its token (Text, Prefixed(n)), a longer one
\* is Text.
NaN == [kind |-> "NaN", v |-> 0]
Undefined == [kind |-> "undefined", v |-> 0]

\* The document as the XML gives it, before the value processor.  An element
\* that may be missing is << >> or <<token>>; a text is the non-empty sequence
\* of its space-separated tokens; the children named _ of an element are a
\* sequence.

\* parseFloat(i)
parseFloat(t) ==
    CASE t.kind = "num" -> t
      [] t.kind = "prefixed" -> Num(t.v)
      [] t.kind = "hex" -> Num(0)
      [] OTHER -> NaN

\* Number(val): a text of several tokens is no number.
Number(text) ==
    IF Len(text) = 1 /\ text[1].kind \in {"num", "hex"} THEN Num(text[1].v) ELSE NaN

\* a[i], 0-based: undefined outside the array
Elem(a, i) == IF i.kind = "num" /\ i.v + 1 \in 1..Len(a) THEN a[i.v + 1] ELSE Undefined

\* text.split(" ").map(parseFloat)
numbersOf(tokens) == [k \in 1..Len(tokens) |-> parseFloat(tokens[k])]

\* With explicitArray: false the parser makes an array of the children of one
\* name only when there are two or more of them: a single child is the child
\* itself and no child leaves the property undefined.
IsArray(children) == Len(children) >= 2

\* parseNumbers(val), the value processor of the parser: a text that Number
\* reads as a number becomes that Number, any other text stays a string.
parseNumbers(text) ==
    LET f == Number(text)
    IN IF f = NaN THEN (IF Len(text) = 1 THEN text[1] ELSE Text) ELSE f

\* text.split is a function only of a string.
canSplit(text) == parseNumbers(text).kind # "num"

\* rects.reduce(...): the numbers of all rectangles, from rectangle i on.
RECURSIVE mergedRects(_, _)
mergedRects(rects, i) ==
    IF i > Len(rects) THEN << >> ELSE numbersOf(rects[i]) \o mergedRects(rects, i + 1)

\* The body of weakClassifiers.forEach: what it pushes, or a TypeError when
\* internalNodes or leafValues is a Number (no split), features[featureIndex]
\* is undefined, its rects are no array or one of them is a Number.
weakOutput(weakClassifier, features) ==
    LET internalNodes == numbersOf(weakClassifier.internalNodes)
        nodeTilted == Elem(internalNodes, Num(0))
        featureIndex == Elem(internalNodes, Num(2))
        nodeThreshold == Elem(internalNodes, Num(3))
        leafValues == numbersOf(weakClassifier.leafValues)
        feature == IF IsArray(features) THEN Elem(features, featureIndex) ELSE Undefined
    IN IF ~canSplit(weakClassifier.internalNodes) \/ ~canSplit(weakClassifier.leafValues)
       THEN [threw |-> TRUE, pushed |-> << >>]
       ELSE IF feature = Undefined THEN [threw |-> TRUE, pushed |-> << >>]
       ELSE IF ~IsArray(feature.rects) THEN [threw |-> TRUE, pushed |-> << >>]
       ELSE IF \E r \in 1..Len(feature.rects) : ~canSplit(feature.rects[r])
       THEN [threw |-> TRUE, pushed |-> << >>]
       ELSE [threw |-> FALSE,
             pushed |-> <<nodeTilted, Num(Len(feature.rects))>>
                        \o mergedRects(feature.rects, 1)
                        \o <<nodeThreshold>> \o leafValues]

\* weakClassifiers.forEach(...) from the classifier i on.
RECURSIVE weakLoop(_, _, _)
weakLoop(weakClassifiers, features, i) ==
    IF i > Len(weakClassifiers) THEN [threw |-> FALSE, pushed |-> << >>]
    ELSE LET w == weakOutput(weakClassifiers[i], features)
             rest == weakLoop(weakClassifiers, features, i + 1)
         IN IF w.threw \/ rest.threw THEN [threw |-> TRUE, pushed |-> << >>]
            ELSE [threw |-> FALSE, pushed |-> w.pushed \o rest.pushed]

\* The body of stages.forEach.
stageOutput(stage, features) ==
    LET inner == IF IsArray(stage.weakClassifiers)
                 THEN weakLoop(stage.weakClassifiers, features, 1)
                 ELSE [threw |-> TRUE, pushed |-> << >>]
    IN IF inner.threw THEN inner
       ELSE [threw |-> FALSE,
             pushed |-> <<parseNumbers(<<stage.stageThreshold>>),
                          parseNumbers(<<stage.maxWeakCount>>)>> \o inner.pushed]

\* stages.forEach(...) from the stage i on.
RECURSIVE stageLoop(_, _, _)
stageLoop(stages, features, i) ==
    IF i > Len(stages) THEN [threw |-> FALSE, pushed |-> << >>]
    ELSE LET st == stageOutput(stages[i], features)
             rest == stageLoop(stages, features, i + 1)
         IN IF st.threw \/ rest.threw THEN [threw |-> TRUE, pushed |-> << >>]
            ELSE [threw |-> FALSE, pushed |-> st.pushed \o rest.pushed]

\* cascade.width: the number, the text when it is no number, undefined when
\* the element is missing.
property(element) == IF element = << >> THEN Undefined ELSE parseNumbers(<<element[1]>>)

\* The array the callback builds from a parsed document.
convert(doc) ==
    LET body == IF doc.stages = << >> \/ ~IsArray(doc.stages[1])
                THEN [threw |-> TRUE, pushed |-> << >>]
                ELSE stageLoop(doc.stages[1], doc.features, 1)
    IN IF body.threw THEN body
       ELSE [threw |-> FALSE,
             pushed |-> <<property(doc.width), property(doc.height)>> \o body.pushed]

\* The callback of parser.parseString: a parse error is printed with
\* console.error; otherwise the array is built and printed, unless a TypeError
\* ends the program first.
parsed ==
    /\ loadState = "ready"
    /\ IF xml.malformed
       THEN loadState' = "error" /\ arr' = arr
       ELSE LET c == convert(xml)
            IN IF c.threw
               THEN loadState' = "threw" /\ arr' = arr
               ELSE loadState' = "printed" /\ arr' = c.pushed
    /\ UNCHANGED <<xml, restOfLoad>>

MaxStages == 2     \* most stages of an enumerated cascade
MaxWeak == 2       \* most weak classifiers of a stage

\* The text of a rectangle: x, y, width, height, weight.
RectText(k) == <<Num(k), Num(k + 1), Num(2), Num(3), Num(-1)>>
TwoRects == [rects |-> <<RectText(1), RectText(2)>>]
ThreeRects == [rects |-> <<RectText(3), RectText(4), RectText(5)>>]
OneRect == [rects |-> <<RectText(6)>>]

\* The feature lists of the enumerated cascades.
FeatureLists == {<<TwoRects, ThreeRects>>, <<ThreeRects, TwoRects, TwoRects>>,
                 <<TwoRects, OneRect>>}

\* A stump on the feature f: internalNodes "0 -1 f threshold", two leaf values.
WeakOn(f, k) ==
    [internalNodes |-> <<Num(0), Num(-1), Num(f), Num(200 + k)>>,
     leafValues |-> <<Num(300 + k), Num(400 + k)>>]

\* The stage number s with one stump on each of the features fs.
StageOn(s, fs) ==
    [stageThreshold |-> Num(100 + s), maxWeakCount |-> Num(Len(fs)),
     weakClassifiers |-> [k \in 1..Len(fs) |-> WeakOn(fs[k], 10 * s + k)]]

\* A 20 x 20 cascade with the stages described by shape.
CascadeOf(shape, features) ==
    [malformed |-> FALSE, width |-> <<Num(20)>>, height |-> <<Num(20)>>,
     stages |-> <<[s \in 1..Len(shape) |-> StageOn(s, shape[s])]>>,
     features |-> features]

StageShapes == UNION {[1..m -> 0..1] : m \in 1..MaxWeak}
CascadeShapes == UNION {[1..n -> StageShapes] : n \in 1..MaxStages}

Defects == {"none", "malformed", "no width", "text width", "no stages",
            "text threshold", "text leaf", "text rect", "short nodes", "no feature",
            "one leaf", "one rect number", "prefixed leaf", "one prefixed leaf",
            "hex rect", "hex width"}

\* The cascade doc with one defect.
Damaged(doc, defect) ==
    CASE defect = "none" -> doc
      [] defect = "malformed" -> [doc EXCEPT !.malformed = TRUE]
      [] defect = "no width" -> [doc EXCEPT !.width = << >>]
      [] defect = "text width" -> [doc EXCEPT !.width = <<Text>>]
      [] defect = "no stages" -> [doc EXCEPT !.stages = << >>]
      [] defect = "text threshold" ->
            [doc EXCEPT !.stages[1][1].stageThreshold = Text]
      [] defect = "text leaf" ->
            [doc EXCEPT !.stages[1][1].weakClassifiers[1].leafValues[2] = Text]
      [] defect = "text rect" -> [doc EXCEPT !.features[1].rects[1][5] = Text]
      [] defect = "short nodes" ->
            [doc EXCEPT !.stages[1][1].weakClassifiers[1].internalNodes =
                           <<Num(0), Num(-1), Num(0)>>]
      [] defect = "no feature" ->
            [doc EXCEPT !.stages[1][1].weakClassifiers[1].internalNodes[3] = Num(9)]
      [] defect = "one leaf" ->
            [doc EXCEPT !.stages[1][1].weakClassifiers[1].leafValues = <<Num(1)>>]
      [] defect = "one rect number" -> [doc EXCEPT !.features[1].rects[1] = <<Num(1)>>]
      [] defect = "prefixed leaf" ->
            [doc EXCEPT !.stages[1][1].weakClassifiers[1].leafValues[1] = Prefixed(7)]
      [] defect = "one prefixed leaf" ->
            [doc EXCEPT !.stages[1][1].weakClassifiers[1].leafValues = <<Prefixed(7)>>]
      [] defect = "hex rect" -> [doc EXCEPT !.features[1].rects[1][1] = Hex(16)]
      [] defect = "hex width" -> [doc EXCEPT !.width = <<Hex(16)>>]

InitLoad ==
    /\ \E shape \in CascadeShapes, features \in FeatureLists, defect \in Defects :
          xml = Damaged(CascadeOf(shape, features), defect)
    /\ arr = << >>
    /\ loadState = "ready"
    /\ IntegralOff /\ GrayOff /\ CropOff /\ FaceOff /\ EyeOff /\ DetectorOff /\ PrimOff
    /\ ScanOff /\ LoopOff

NextLoad == parsed

SpecLoad == InitLoad /\ [][NextLoad]_vars

(***************************************************************************)
(* Detector                                                                *)
(***************************************************************************)

\* The options are in hundredths (120 = 1.2); 0 stands for every falsy value:
\* 0 itself and a property that is not set.

\* value || fallback
orDefault(value, fallback) == IF value = 0 THEN fallback ELSE value

\* The constructor with 1 as the default of scaleFactor.
optionsOfUnitFactor(o) ==
    LET given == IF o = << >>
                 THEN [initialScale |-> 0, scaleFactor |-> 0, stepSize |-> 0,
                       edgesDensity |-> 0]
                 ELSE o[1]
    IN [initialScale |-> orDefault(given.initialScale, 500),
        scaleFactor |-> orDefault(given.scaleFactor, 100),
        stepSize |-> orDefault(given.stepSize, 100),
        edgesDensity |-> orDefault(given.edgesDensity, 0)]

\* this.options after the constructor; o is << >> for new Detector().
optionsOf(o) ==
    LET given == IF o = << >>
                 THEN [initialScale |-> 0, scaleFactor |-> 0, stepSize |-> 0,
                       edgesDensity |-> 0]
                 ELSE o[1]
    IN [initialScale |-> orDefault(given.initialScale, 500),
        scaleFactor |-> orDefault(given.scaleFactor, 120),
        stepSize |-> orDefault(given.stepSize, 100),
        edgesDensity |-> orDefault(given.edgesDensity, 0)]

\* new Detector(options): this.options is the caller's object when one is
\* passed, so the defaults are written into it.
Detector ==
    /\ detState = "new"
    /\ detector' = <<optionsOf(options)>>
    /\ options' = IF options = << >> THEN options ELSE <<optionsOf(options)>>
    /\ detState' = "constructed"
    /\ UNCHANGED <<forwarded, restOfDetector>>

MaxScan == 2       \* largest side of an image handed to detect

\* The images handed to detect.
Frames == [width : 1..MaxScan, height : 1..MaxScan]

\* detector.detect(image): every option goes to ViolaJones.detect as it is.
detect ==
    /\ detState = "constructed"
    /\ \E image \in Frames :
          forwarded' = <<[width |-> image.width, height |-> image.height,
                          initialScale |-> detector[1].initialScale,
                          scaleFactor |-> detector[1].scaleFactor,
                          stepSize |-> detector[1].stepSize,
                          edgesDensity |-> detector[1].edgesDensity]>>
    /\ detState' = "detecting"
    /\ UNCHANGED <<options, detector, restOfDetector>>

\* The option values of the enumerated calls, in hundredths.
ScaleFactors == {0, -100, 50, 100, 105, 120}
OtherOptions == [initialScale : {0, 100, 400}, stepSize : {0, 100, 200},
                 edgesDensity : {0, 10}]

InitDetector ==
    /\ \/ options = << >>
       \/ \E sf \in ScaleFactors, o \in OtherOptions :
             options = <<[initialScale |-> o.initialScale, scaleFactor |-> sf,
                          stepSize |-> o.stepSize, edgesDensity |-> o.edgesDensity]>>
    /\ detector = << >>
    /\ forwarded = << >>
    /\ detState = "new"
    /\ IntegralOff /\ GrayOff /\ CropOff /\ FaceOff /\ EyeOff /\ LoadOff /\ PrimOff
    /\ ScanOff /\ LoopOff

NextDetector == Detector \/ detect

SpecDetector == InitDetector /\ [][NextDetector]_vars

(***************************************************************************)
(* Image.equalizeHist and Image.equalizeHistogram                          *)
(***************************************************************************)

\* The source is the Uint8ClampedArray that Image.grayscale returns, and so is
\* a destination that is passed.

\* if (!step) step = 5
stepOrDefault(step) == IF step = 0 THEN 5 ELSE step

\* hist[v] after the integral loop, before the scaling: the sampled pixels
\* src[0], src[step], ... that are <= v.
integralHist(src, step, v) ==
    Cardinality({i \in DOMAIN src : i % step = 0 /\ src[i] <= v})

\* The store of num / den >= 0 into a Uint8ClampedArray: the nearest integer,
\* the even one of two equally near, at most 255.
toUint8Clamp(num, den) ==
    LET f == num \div den
        r == num % den
        nearest == IF 2 * r < den THEN f
                   ELSE IF 2 * r > den THEN f + 1
                   ELSE IF f % 2 = 0 THEN f ELSE f + 1
    IN Min(255, nearest)

\* dst[i] = hist[src[i]], with hist[v] = h * (255 * step / srcLength)
equalized(src, step) ==
    LET srcLength == Cardinality(DOMAIN src)
        st == stepOrDefault(step)
    IN [i \in DOMAIN src |->
           toUint8Clamp(integralHist(src, st, src[i]) * 255 * st, srcLength)]

\* Image.equalizeHist(src, step, dst) of the first cv/image module:
\* if (!dst) dst = src, and dst is returned.
equalizeHist ==
    /\ primState = "ready" /\ prim = "equalizeHist"
    /\ out' = equalized(plane, opts.step)
    /\ plane' = IF opts.dst THEN plane ELSE equalized(plane, opts.step)
    /\ primState' = "returned"
    /\ UNCHANGED <<prim, planeWidth, planeHeight, opts, restOfPrim>>

\* Image.equalizeHistogram(src, step, dst) of the second cv/image module, the
\* same code.
equalizeHistogram ==
    /\ primState = "ready" /\ prim = "equalizeHistogram"
    /\ out' = equalized(plane, opts.step)
    /\ plane' = IF opts.dst THEN plane ELSE equalized(plane, opts.step)
    /\ primState' = "returned"
    /\ UNCHANGED <<prim, planeWidth, planeHeight, opts, restOfPrim>>

\* histogram[v] of Image.equalizeHist(pixels, width, height) after its second
\* loop, which starts with prev = histogram[0] and so counts the pixels of
\* value 0 twice.
histogramOf(px, v) ==
    Cardinality({i \in DOMAIN px : px[i] <= v}) + Cardinality({i \in DOMAIN px : px[i] = 0})

\* equalized[i] = (histogram[pixels[i]] * norm + 0.5) | 0, stored into a new
\* Uint8ClampedArray.
equalizedPixels(px) ==
    LET length == Cardinality(DOMAIN px)
    IN [i \in DOMAIN px |->
           Min(255, (2 * histogramOf(px, px[i]) * 255 + length) \div (2 * length))]

\* Image.equalizeHist(pixels, width, height) of the second cv/image module.
equalizeHistPixels ==
    /\ primState = "ready" /\ prim = "equalizeHistPixels"
    /\ out' = equalizedPixels(plane)
    /\ primState' = "returned"
    /\ UNCHANGED <<prim, plane, planeWidth, planeHeight, opts, restOfPrim>>

MaxSrc == 4        \* longest enumerated source array

\* The gray levels of the enumerated arrays.
Levels == {0, 128, 255}

InitEqualize ==
    /\ prim \in {"equalizeHist", "equalizeHistogram", "equalizeHistPixels"}
    /\ \E n \in 1..MaxSrc : plane \in [0..(n - 1) -> Levels]
    /\ planeWidth = Cardinality(DOMAIN plane) /\ planeHeight = 1
    /\ opts \in [step : {0, 1, 2}, dst : BOOLEAN]
    /\ out = << >>
    /\ primState = "ready"
    /\ IntegralOff /\ GrayOff /\ CropOff /\ FaceOff /\ EyeOff /\ LoadOff /\ DetectorOff
    /\ ScanOff /\ LoopOff

NextEqualize == equalizeHist \/ equalizeHistogram \/ equalizeHistPixels

SpecEqualize == InitEqualize /\ [][NextEqualize]_vars

(***************************************************************************)
(* Image.gradientX and Image.gradientY                                     *)
(***************************************************************************)

\* pixels[m] - p, where the difference with undefined is NaN and NaN is
\* replaced by 0; then Math.pow(d, 2).
squaredStep(px, n, m) ==
    IF m \in DOMAIN px THEN (px[m] - px[n]) * (px[m] - px[n]) ELSE 0

\* Image.gradientX(pixels, width, height): the neighbour is pixels[n + 1].
gradientX(px, w, h) == [n \in 0..(w * h - 1) |-> squaredStep(px, n, n + 1)]

\* Image.gradientY(pixels, width, height): the neighbour is pixels[n + width].
gradientY(px, w, h) == [n \in 0..(w * h - 1) |-> squaredStep(px, n, n + w)]

gradientXCall ==
    /\ primState = "ready" /\ prim = "gradientX"
    /\ out' = gradientX(plane, planeWidth, planeHeight)
    /\ primState' = "returned"
    /\ UNCHANGED <<prim, plane, planeWidth, planeHeight, opts, restOfPrim>>

gradientYCall ==
    /\ primState = "ready" /\ prim = "gradientY"
    /\ out' = gradientY(plane, planeWidth, planeHeight)
    /\ primState' = "returned"
    /\ UNCHANGED <<prim, plane, planeWidth, planeHeight, opts, restOfPrim>>

MaxSide == 3       \* largest width and height of an enumerated plane
MaxLevel == 1      \* largest pixel of an enumerated plane

InitGradient ==
    /\ prim \in {"gradientX", "gradientY"}
    /\ planeWidth \in 1..MaxSide /\ planeHeight \in 1..MaxSide
    /\ plane \in [0..(planeWidth * planeHeight - 1) -> 0..MaxLevel]
    /\ opts = << >>
    /\ out = << >>
    /\ primState = "ready"
    /\ IntegralOff /\ GrayOff /\ CropOff /\ FaceOff /\ EyeOff /\ LoadOff /\ DetectorOff
    /\ ScanOff /\ LoopOff

NextGradient == gradientXCall \/ gradientYCall

SpecGradient == InitGradient /\ [][NextGradient]_vars

(***************************************************************************)
(* Image.findMaxIndex                                                      *)
(***************************************************************************)

\* sum of seq[lo..hi]
RECURSIVE WindowSum(_, _, _)
WindowSum(seq, lo, hi) == IF lo > hi THEN 0 ELSE seq[lo] + WindowSum(seq, lo + 1, hi)

\* The loop from i on.  h = sum / w is compared with max; w is the same in
\* every round, so the sums are compared, max being max * w.
RECURSIVE findMaxLoop(_, _, _, _, _)
findMaxLoop(seq, smooth, i, max, index) ==
    IF i >= Cardinality(DOMAIN seq) - smooth[2] THEN index
    ELSE LET sum == WindowSum(seq, i - smooth[1], i + smooth[2])
         IN IF sum > max THEN findMaxLoop(seq, smooth, i + 1, sum, i)
            ELSE findMaxLoop(seq, smooth, i + 1, max, index)

\* Image.findMaxIndex(seq, smooth): if (!smooth) smooth = [0, 0]; max = 0, index = 0
findMaxIndex(seq, smooth) ==
    LET sm == IF smooth = << >> THEN <<0, 0>> ELSE smooth
    IN findMaxLoop(seq, sm, sm[1], 0, 0)

findMaxIndexCall ==
    /\ primState = "ready" /\ prim = "findMaxIndex"
    /\ out' = <<findMaxIndex(plane, opts.smooth)>>
    /\ primState' = "returned"
    /\ UNCHANGED <<prim, plane, planeWidth, planeHeight, opts, restOfPrim>>

MaxSeq == 4        \* longest enumerated sequence
MaxSmooth == 1     \* largest smoothing on either side

InitFindMax ==
    /\ prim = "findMaxIndex"
    /\ \E n \in 1..MaxSeq : plane \in [0..(n - 1) -> {-2, -1, 0, 1, 2}]
    /\ planeWidth = Cardinality(DOMAIN plane) /\ planeHeight = 1
    /\ opts \in [smooth : {<< >>} \cup ((0..MaxSmooth) \X (0..MaxSmooth))]
    /\ out = << >>
    /\ primState = "ready"
    /\ IntegralOff /\ GrayOff /\ CropOff /\ FaceOff /\ EyeOff /\ LoadOff /\ DetectorOff
    /\ ScanOff /\ LoopOff

NextFindMax == findMaxIndexCall

SpecFindMax == InitFindMax /\ [][NextFindMax]_vars

(***************************************************************************)
(* Image.separableConvolve against the two one-dimensional convolutions    *)
(***************************************************************************)

\* The three convolutions of the first cv/image module on the same plane.
convolveCall ==
    /\ primState = "ready" /\ prim = "separableConvolve"
    /\ out' = [separable |-> separableConvolve(plane, planeWidth, planeHeight,
                                                 opts.horizWeights, opts.vertWeights),
                horizontal |-> horizontalConvolve(plane, planeWidth, planeHeight,
                                                   opts.horizWeights),
                vertical |-> verticalConvolve(plane, planeWidth, planeHeight,
                                               opts.vertWeights)]
    /\ primState' = "returned"
    /\ UNCHANGED <<prim, plane, planeWidth, planeHeight, opts, restOfPrim>>

MaxConvSide == 2   \* largest width and height of a convolved plane

\* The weight vectors of the enumerated calls.
Kernels == {<<1>>, <<2>>, <<1, 1>>, <<-1, 0, 1>>, <<1, 2, 1>>}

InitConvolve ==
    /\ prim = "separableConvolve"
    /\ planeWidth \in 1..MaxConvSide /\ planeHeight \in 1..MaxConvSide
    /\ plane \in [0..(planeWidth * planeHeight - 1) -> Levels]
    /\ opts \in [horizWeights : Kernels, vertWeights : Kernels]
    /\ out = << >>
    /\ primState = "ready"
    /\ IntegralOff /\ GrayOff /\ CropOff /\ FaceOff /\ EyeOff /\ LoadOff /\ DetectorOff
    /\ ScanOff /\ LoopOff

NextConvolve == convolveCall

SpecConvolve == InitConvolve /\ [][NextConvolve]_vars

(***************************************************************************)
(* The multi-scale scan (cv/violajones)                                    *)
(***************************************************************************)

\* The scale is the exact fraction num / den in lowest terms, den > 0.
RECURSIVE Gcd(_, _)
Gcd(a, b) == IF b = 0 THEN a ELSE Gcd(b, a % b)

Fraction(num, den) ==
    LET g == Gcd(IF num < 0 THEN -num ELSE num, den)
    IN IF g = 0 THEN [num |-> 0, den |-> 1] ELSE [num |-> num \div g, den |-> den \div g]

\* scale * scaleFactor, the factor in hundredths
scaled(s, factor) == Fraction(s.num * factor, s.den * 100)

\* scale * windowW <= width and scale * windowH <= height
scaleFits(s, c, w, h) ==
    /\ s.num * c.windowW <= w * s.den
    /\ s.num * c.windowH <= h * s.den

\* floor(scale * side)
windowSide(s, side) == (s.num * side) \div s.den

\* floor(stepSize * scale), at least 1; stepSize in hundredths
stepOf(stepSize, s) == Max(1, (stepSize * s.num) \div (100 * s.den))

\* The stage totals of the window at (x, y): the scene sets them at the origin,
\* every other window holds nothing and totals 0 in each stage.
totalsAt(x, y) ==
    IF x = 0 /\ y = 0 THEN scene.totals
    ELSE [k \in 1..Len(cascade.thresholds) |-> 0]

\* The edge energy of the window reaches the threshold.
edgePassAt(x, y) == IF x = 0 /\ y = 0 THEN scene.edgePass ELSE TRUE

\* A stage rejects on a total greater than or equal to its threshold too.
stagePassesStrictly(total, threshold) == total > threshold

\* A stage is passed iff its total meets or exceeds stageThreshold.
stagePasses(total, threshold) == total >= threshold

MaxRecorded == 8   \* longest list of recorded rectangles

\* ViolaJones.detect is entered with the arguments detect forwarded.
startScan ==
    /\ detState = "detecting" /\ scanState = "idle"
    /\ scale' = Fraction(forwarded[1].initialScale, 100)
    /\ scanState' = "scale"
    /\ UNCHANGED <<cascade, scene, winX, winY, winState, stageIndex, evaluated, recorded,
                   neighbors, detections, detectorVars, restOfScan>>

\* The test of the loop over the scales.
nextScale ==
    /\ scanState = "scale"
    /\ IF scaleFits(scale, cascade, forwarded[1].width, forwarded[1].height)
       THEN scanState' = "window"
       ELSE scanState' = "merge"
    /\ winX' = 0 /\ winY' = 0
    /\ UNCHANGED <<cascade, scene, scale, winState, stageIndex, evaluated, recorded,
                   neighbors, detections, detectorVars, restOfScan>>

\* The window at (winX, winY) is entered.
enterWindow ==
    /\ scanState = "window" /\ winState = "none"
    /\ winState' = "Entering"
    /\ stageIndex' = 0 /\ evaluated' = << >>
    /\ UNCHANGED <<cascade, scene, scale, winX, winY, recorded, neighbors, detections,
                   scanState, detectorVars, restOfScan>>

\* The edge-density test, made only when edgesDensity > 0, then the variance.
edgeTest ==
    /\ winState = "Entering"
    /\ winState' = IF forwarded[1].edgesDensity > 0 /\ ~edgePassAt(winX, winY)
                   THEN "EdgeRejected" ELSE "VarianceComputed"
    /\ UNCHANGED <<cascade, scene, scale, winX, winY, stageIndex, evaluated, recorded,
                   neighbors, detections, scanState, detectorVars, restOfScan>>

\* The walk over the stages starts at stage 0.
firstStage ==
    /\ winState = "VarianceComputed"
    /\ winState' = IF Len(cascade.thresholds) = 0 THEN "Accepted" ELSE "Stage"
    /\ stageIndex' = 0
    /\ UNCHANGED <<cascade, scene, scale, winX, winY, evaluated, recorded, neighbors,
                   detections, scanState, detectorVars, restOfScan>>

\* One stage: its total against stageThreshold; a failing stage rejects the
\* window at once, the last passing stage accepts it.
evalStage ==
    /\ winState = "Stage"
    /\ evaluated' = Append(evaluated, stageIndex)
    /\ IF ~stagePasses(totalsAt(winX, winY)[stageIndex + 1],
                       cascade.thresholds[stageIndex + 1])
       THEN winState' = "Rejected" /\ UNCHANGED stageIndex
       ELSE IF stageIndex + 1 = Len(cascade.thresholds)
            THEN winState' = "Accepted" /\ UNCHANGED stageIndex
            ELSE winState' = "Stage" /\ stageIndex' = stageIndex + 1
    /\ UNCHANGED <<cascade, scene, scale, winX, winY, recorded, neighbors, detections,
                   scanState, detectorVars, restOfScan>>

\* The window is left: an accepted one is recorded as (x, y, sw, sh); then x
\* advances by step, at the end of the row y does, and after the last row the
\* scale is multiplied by scaleFactor.
leaveWindow ==
    /\ winState \in {"EdgeRejected", "Rejected", "Accepted"}
    /\ winState = "Accepted" => Len(recorded) < MaxRecorded
    /\ LET sw == windowSide(scale, cascade.windowW)
           sh == windowSide(scale, cascade.windowH)
           step == stepOf(forwarded[1].stepSize, scale)
       IN /\ recorded' = IF winState = "Accepted"
                         THEN Append(recorded, [x |-> winX, y |-> winY,
                                                width |-> sw, height |-> sh])
                         ELSE recorded
          /\ IF winX + step <= forwarded[1].width - sw
             THEN winX' = winX + step /\ UNCHANGED <<winY, scale, scanState>>
             ELSE IF winY + step <= forwarded[1].height - sh
                  THEN winX' = 0 /\ winY' = winY + step /\ UNCHANGED <<scale, scanState>>
                  ELSE /\ winX' = 0 /\ winY' = 0
                       /\ scale' = scaled(scale, forwarded[1].scaleFactor)
                       /\ scanState' = "scale"
    /\ winState' = "none"
    /\ UNCHANGED <<cascade, scene, stageIndex, evaluated, neighbors, detections,
                   detectorVars, restOfScan>>

MaxCascade == 2    \* largest number of stages

\* The option values of the scanned calls, in hundredths, 0 = not set.
ScanOptions == [initialScale : {0, 100}, scaleFactor : {0, 100, 150},
                stepSize : {0, 200}, edgesDensity : {0, 10}]

InitScan ==
    /\ options = << >> \/ \E o \in ScanOptions : options = <<o>>
    /\ detector = << >> /\ forwarded = << >> /\ detState = "new"
    /\ \E side \in 1..2, n \in 1..MaxCascade :
          /\ cascade = [windowW |-> side, windowH |-> side, thresholds |-> [k \in 1..n |-> 1]]
          /\ \E e \in BOOLEAN : \E t \in [1..n -> 0..2] : scene = [totals |-> t, edgePass |-> e]
    /\ scale = NoScale /\ winX = 0 /\ winY = 0
    /\ winState = "none" /\ stageIndex = 0 /\ evaluated = << >>
    /\ recorded = << >> /\ neighbors = 0 /\ detections = << >> /\ scanState = "idle"
    /\ IntegralOff /\ GrayOff /\ CropOff /\ FaceOff /\ EyeOff /\ LoadOff /\ PrimOff /\ LoopOff

(***************************************************************************)
(* The merge of the recorded rectangles (cv/violajones)                    *)
(***************************************************************************)

\* The area two rectangles share.
intersectionOf(a, b) ==
    LET w == Min(a.x + a.width, b.x + b.width) - Max(a.x, b.x)
        h == Min(a.y + a.height, b.y + b.height) - Max(a.y, b.y)
    IN IF w > 0 /\ h > 0 THEN w * h ELSE 0

\* The distance from the centre of a to the centre of b is less than
\* min(w, h) * 0.2 of a; the centres are compared doubled and squared.
centreNear(a, b) ==
    LET dx == (2 * a.x + a.width) - (2 * b.x + b.width)
        dy == (2 * a.y + a.height) - (2 * b.y + b.height)
        m == Min(a.width, a.height)
    IN 25 * (dx * dx + dy * dy) < 4 * m * m

\* The overlap of two rectangles exceeds the threshold: each centre is near
\* the other, or the intersection is at least half the union.
overlaps(a, b) ==
    \/ centreNear(a, b) /\ centreNear(b, a)
    \/ LET i == intersectionOf(a, b)
       IN 2 * i >= a.width * a.height + b.width * b.height - i

\* The group of the rectangles reached from the indices in g by overlaps.
RECURSIVE groupFrom(_, _)
groupFrom(rs, g) ==
    LET more == {j \in 1..Len(rs) : \E i \in g : overlaps(rs[i], rs[j])}
    IN IF more \subseteq g THEN g ELSE groupFrom(rs, g \cup more)

RECURSIVE SumOver(_, _, _)
SumOver(rs, g, field) ==
    IF g = {} THEN 0
    ELSE LET i == CHOOSE j \in g : TRUE
         IN field[i] + SumOver(rs, g \ {i}, field)

\* The component-wise average rectangle of a group, in integer pixels.
averageOf(rs, g) ==
    LET n == Cardinality(g)
        avg(field) == (2 * SumOver(rs, g, field) + n) \div (2 * n)
    IN [x |-> avg([i \in 1..Len(rs) |-> rs[i].x]),
        y |-> avg([i \in 1..Len(rs) |-> rs[i].y]),
        width |-> avg([i \in 1..Len(rs) |-> rs[i].width]),
        height |-> avg([i \in 1..Len(rs) |-> rs[i].height])]

\* A group is emitted when it has at least k + 1 rectangles.
groupKept(g, k) == Cardinality(g) >= k + 1

\* The averages of the kept groups from index i on, a group standing at its
\* first rectangle.
RECURSIVE mergedFrom(_, _, _)
mergedFrom(rs, k, i) ==
    IF i > Len(rs) THEN << >>
    ELSE LET g == groupFrom(rs, {i})
         IN IF (\A j \in g : j >= i) /\ groupKept(g, k)
            THEN <<averageOf(rs, g)>> \o mergedFrom(rs, k, i + 1)
            ELSE mergedFrom(rs, k, i + 1)

\* The output of the detector: with neighbors = 0 every recorded rectangle,
\* unmerged; otherwise the average of every group of at least neighbors + 1.
mergedRectangles(rs, k) == IF k = 0 THEN rs ELSE mergedFrom(rs, k, 1)

\* The last step of a detection.
merge ==
    /\ scanState = "merge"
    /\ detections' = mergedRectangles(recorded, neighbors)
    /\ scanState' = "done"
    /\ UNCHANGED <<cascade, scene, scale, winX, winY, winState, stageIndex, evaluated,
                   recorded, neighbors, detectorVars, restOfScan>>

MaxRecs == 3       \* longest enumerated list of recorded rectangles
MaxNeighbors == 2  \* largest enumerated neighbors option

\* The rectangles of the enumerated lists: two sizes at three places.
RecordedRects == [x : {0, 1, 6}, y : {0}, width : {4, 6}, height : {4, 6}]

InitMerge ==
    /\ \E n \in 0..MaxRecs : recorded \in [1..n -> RecordedRects]
    /\ neighbors \in 0..MaxNeighbors
    /\ cascade = [windowW |-> 0, windowH |-> 0, thresholds |-> << >>]
    /\ scene = [totals |-> << >>, edgePass |-> FALSE]
    /\ scale = NoScale /\ winX = 0 /\ winY = 0
    /\ winState = "none" /\ stageIndex = 0 /\ evaluated = << >>
    /\ detections = << >> /\ scanState = "merge"
    /\ IntegralOff /\ GrayOff /\ CropOff /\ FaceOff /\ EyeOff /\ LoadOff /\ DetectorOff
    /\ PrimOff /\ LoopOff

NextMerge == merge

SpecMerge == InitMerge /\ [][NextMerge]_vars

NextScan == Detector \/ detect \/ startScan \/ nextScale \/ enterWindow \/ edgeTest
               \/ firstStage \/ evalStage \/ leaveWindow \/ merge

SpecScan == InitScan /\ [][NextScan]_vars

\* Every step of the scan is taken in the end: the scan is one synchronous call.
SpecScanFair == SpecScan /\ WF_vars(NextScan)

(***************************************************************************)
(* The frame loop of the browser applications                              *)
(***************************************************************************)

\* How the frame work of one tick ends.  Without a size part_003 returns,
\* while getImageData(0, 0, width, height) of the other two throws; no face
\* leaves nothing to draw; app.js and part_003 return the bare rectangle when
\* an eye is missing and call detector.alignment, which Detector does not have,
\* when both are found; part_004 calls detector.align, whose second statement
\* calls Image.equalizeHistogram: only the second "cv/image" module of
\* detector.js has it, with the first the call throws.
frameWork(impl, image, sized, nFaces, leftFound, rightFound) ==
    IF ~sized THEN (IF impl = "part_003" THEN "noSize" ELSE "threw")
    ELSE IF nFaces = 0 THEN "noFace"
    ELSE IF impl = "part_004" THEN (IF image = "first" THEN "threw" ELSE "drawn")
    ELSE IF ~leftFound \/ ~rightFound THEN "noEye"
    ELSE "threw"

\* The successor scheduled by the last statement of tick: none when the frame
\* work returned early or threw.
pendingAfterLast(pending, outcome) ==
    IF outcome \in {"noSize", "threw"} THEN pending - 1 ELSE pending

\* The callbacks pending after a tick: the one that ran is gone and
\* window.requestAnimFrame(tick), the first statement, added one.
pendingAfter(pending, outcome) == pending - 1 + 1

MaxPlays == 3      \* most play/playing events delivered
MaxTicks == 4      \* most tick calls made

\* video.onplay (app.js, part_004), video.onplaying (part_003): the first two
\* size the canvas from the video; all request an animation frame for tick.
onplay ==
    /\ loopState \in {"waiting", "running"}
    /\ plays < MaxPlays
    /\ plays' = plays + 1
    /\ IF loopImpl = "part_003" THEN UNCHANGED canvasSized
       ELSE \E videoSized \in BOOLEAN : canvasSized' = videoSized
    /\ pendingTicks' = pendingTicks + 1
    /\ loopState' = "running"
    /\ UNCHANGED <<loopImpl, imageModule, ticks, frame, restOfLoop>>

\* One animation frame runs one of the pending tick callbacks.
tick ==
    /\ loopState = "running"
    /\ pendingTicks > 0 /\ ticks < MaxTicks
    /\ \E videoSized, leftFound, rightFound \in BOOLEAN, nFaces \in 0..1 :
          LET sized == IF loopImpl = "part_003" THEN videoSized ELSE canvasSized
              outcome == frameWork(loopImpl, imageModule, sized, nFaces, leftFound, rightFound)
          IN /\ frame' = outcome
             /\ canvasSized' = IF loopImpl = "part_003" /\ videoSized THEN TRUE
                               ELSE canvasSized
             /\ pendingTicks' = pendingAfter(pendingTicks, outcome)
    /\ ticks' = ticks + 1
    /\ UNCHANGED <<loopImpl, imageModule, plays, loopState, restOfLoop>>

\* The page is loaded and the stream granted; no event was delivered.  The
\* canvas "player" has the size its page gives it: 300 x 150 without
\* attributes, none with a zero width or height.
InitLoop ==
    /\ loopImpl \in {"app", "part_003", "part_004"}
    /\ imageModule \in {"first", "second"}
    /\ pendingTicks = 0 /\ plays = 0 /\ ticks = 0
    /\ canvasSized \in BOOLEAN /\ frame = "none" /\ loopState = "waiting"
    /\ IntegralOff /\ GrayOff /\ CropOff /\ FaceOff /\ EyeOff /\ LoadOff /\ DetectorOff
    /\ PrimOff /\ ScanOff

NextLoop == onplay \/ tick

SpecLoop == InitLoop /\ [][NextLoop]_vars

(***************************************************************************)
(* The whole program: any one of the parts runs.                           *)
(***************************************************************************)
Init == InitIntegral \/ InitSumTable \/ InitGray \/ InitCrop \/ InitFace \/ InitDetectEyes \/ InitEye
           \/ InitLoad \/ InitDetector \/ InitEqualize \/ InitGradient \/ InitFindMax
           \/ InitConvolve \/ InitMerge \/ InitScan \/ InitLoop
Next == NextIntegral \/ NextGray \/ NextCrop \/ NextFace \/ NextDetectEyes \/ NextEye
           \/ NextLoad \/ NextDetector \/ NextEqualize \/ NextGradient \/ NextFindMax
           \/ NextConvolve \/ NextMerge \/ NextScan \/ NextLoop
Spec == Init /\ [][Next]_vars

\* ---- claims on grayscale ----

\* The input pixel i as <<r, g, b, a>>, r being the first byte in the buffer.
PixelIn(i) == <<gsIn[4 * i], gsIn[4 * i + 1], gsIn[4 * i + 2], gsIn[4 * i + 3]>>
PixelCount == (Cardinality(DOMAIN gsIn)) \div 4
\* The luma the first conversion returned for pixel i.
LumaOut(i) == IF fillRGBA THEN gsOut[4 * i] ELSE gsOut[i]
Converted == gsState \in {"once", "twice"}

\* C2: grayscale maps (255,255,255,255) to luma 255, (0,0,0,255) to luma 0 and
\* the pure-red pixel (255,0,0,255) to a luma in 53..55.
C2_GrayscaleScenario ==
    Converted =>
        \A i \in 0..(PixelCount - 1) :
            /\ PixelIn(i) = <<255, 255, 255, 255>> => LumaOut(i) = 255
            /\ PixelIn(i) = <<0, 0, 0, 255>> => LumaOut(i) = 0
            /\ PixelIn(i) = <<255, 0, 0, 255>> => LumaOut(i) \in 53..55

\* |a|
Abs(a) == IF a < 0 THEN -a ELSE a

\* C3: for every RGB triple the luma of the integer approximation differs by
\* at most 1 from the float form 0.299 R + 0.587 G + 0.114 B (compared in
\* thousandths).
C3_IntWithinOneOfFloat ==
    (Converted /\ gsVariant = "int") =>
        \A i \in 0..(PixelCount - 1) :
            Abs(1000 * LumaOut(i) - valueFloat(gsIn, 4 * i)) <= 1000

\* C4: grayscale is idempotent: converting the result of a fillRGBA conversion
\* again returns the same bytes, so every pixel keeps R = G = B = luma and its
\* alpha.
C4_GrayscaleIdempotent ==
    gsState = "twice" =>
        /\ gsOut2 = gsOut
        /\ \A i \in 0..(PixelCount - 1) :
              /\ gsOut2[4 * i] = LumaOut(i)
              /\ gsOut2[4 * i + 1] = LumaOut(i)
              /\ gsOut2[4 * i + 2] = LumaOut(i)
              /\ gsOut2[4 * i + 3] = gsIn[4 * i + 3]

\* A coloured, half-transparent pixel went through both conversions of the
\* packed-integer variant and came out mid-gray.
C4_Witness ==
    /\ gsState = "twice" /\ gsVariant = "int"
    /\ gsIn[0] # gsIn[2]
    /\ gsOut2[0] > 0 /\ gsOut2[0] < 255 /\ gsOut2[3] = 128

\* ---- claims on cropFace ----

CropRan == cropState \in {"done", "error"}
\* Both eye arguments were passed.
EyesGiven == eyeLeft # << >> /\ eyeRight # << >>
\* The eyes are distinct (they lie inside the image in every input of the model).
NonDegenerate == eyeOrDefault(eyeLeft) # eyeOrDefault(eyeRight)

\* C6: for every non-degenerate input cropFace returns a square of exactly
\* destSize x destSize, destSize being 150 when it is not supplied, whatever
\* clamping of the crop region occurred.
C6_OutputIsDestSize ==
    (CropRan /\ NonDegenerate) =>
        /\ cropState = "done"
        /\ square.width = destSizeOrDefault(destSize)
        /\ square.height = destSizeOrDefault(destSize)

\* A non-degenerate call without destSize whose crop was clamped at the right
\* border returned a 150 x 150 square.
C6_Witness ==
    /\ cropState = "done" /\ EyesGiven /\ NonDegenerate /\ destSize = 0
    /\ crop.cropWidth < crop.cropEdge
    /\ square.width = 150 /\ square.height = 150

\* Scenario S5 ran: destSize 150, offsets (0.5, 0.5), eyes at (100,100) and
\* (200,100) in a 400 x 400 source.
InS5 ==
    /\ cropState = "done" /\ img = S5Img
    /\ eyeLeft = S5EyeLeft /\ eyeRight = S5EyeRight
    /\ offsetOrDefault(offsetPercent) = <<2, 2>>
    /\ destSizeOrDefault(destSize) = 150

\* A source coordinate p lands in the output at
\* (p - cropStart + pasteStart) * destSize / cropEdge; this is the numerator.
OutNum(p, start, paste) == (p - start + paste) * crop.destSize
\* The output coordinate with numerator num is within 1 pixel of half2 / 2.
NearHalf(num, half2) == Abs(2 * num - half2 * crop.cropEdge) <= 2 * crop.cropEdge

\* C7 as amended: in scenario S5 the crop window and the scale factor place the
\* eye centres in the output at (37.5, 37.5) and (112.5, 37.5), each within 1
\* pixel.
C7_EyesInOutput ==
    InS5 =>
        /\ NearHalf(OutNum(eyeLeft[1], crop.cropX, crop.x), 75)
        /\ NearHalf(OutNum(eyeLeft[2], crop.cropY, crop.y), 75)
        /\ NearHalf(OutNum(eyeRight[1], crop.cropX, crop.x), 225)
        /\ NearHalf(OutNum(eyeRight[2], crop.cropY, crop.y), 75)

\* C7 as stated: the eye centres land at (37.5, 75) and (112.5, 75), each within
\* 1 pixel.
C7_EyesAtMidHeight ==
    InS5 =>
        /\ NearHalf(OutNum(eyeLeft[1], crop.cropX, crop.x), 75)
        /\ NearHalf(OutNum(eyeLeft[2], crop.cropY, crop.y), 150)
        /\ NearHalf(OutNum(eyeRight[1], crop.cropX, crop.x), 225)
        /\ NearHalf(OutNum(eyeRight[2], crop.cropY, crop.y), 150)

\* Scenario S5 ran and cropped the 200 x 200 window at (50, 50).
C7_Witness ==
    /\ InS5 /\ crop.cropEdge = 200 /\ crop.cropX = 50 /\ crop.cropY = 50
    /\ crop.cropWidth = 200 /\ crop.cropHeight = 200

\* C8: the cropped region is the edge x edge square with top-left
\* (xL - offX, yL - offY) intersected with the image; it lies inside the image,
\* and whenever it is smaller than edge it is pasted centred, the paste
\* rectangle inside the canvas.
C8_CropIsIntersection ==
    (CropRan /\ EyesGiven) =>
        LET l == eyeOrDefault(eyeLeft)
            left == l[1] - crop.offsetX
            top == l[2] - crop.offsetY
        IN /\ 0 <= crop.cropX /\ crop.cropX + crop.cropWidth <= img.width
           /\ 0 <= crop.cropY /\ crop.cropY + crop.cropHeight <= img.height
           /\ crop.cropX = Max(0, left)
           /\ crop.cropX + crop.cropWidth = Min(img.width, left + crop.cropEdge)
           /\ crop.cropY = Max(0, top)
           /\ crop.cropY + crop.cropHeight = Min(img.height, top + crop.cropEdge)
           /\ crop.cropWidth < crop.cropEdge =>
                 /\ crop.x = (crop.cropEdge - crop.cropWidth) \div 2
                 /\ 0 <= crop.x /\ crop.x + crop.cropWidth <= crop.cropEdge
           /\ crop.cropHeight < crop.cropEdge =>
                 /\ crop.y = (crop.cropEdge - crop.cropHeight) \div 2
                 /\ 0 <= crop.y /\ crop.y + crop.cropHeight <= crop.cropEdge

\* C9: when eyeLeft equals eyeRight, cropFace computes distance 0, offsets 0
\* and edge 0, takes an empty crop and still returns a destSize x destSize
\* output that is entirely white, without an error.
C9_DegenerateAllWhite ==
    (CropRan /\ EyesGiven /\ eyeLeft = eyeRight) =>
        /\ crop.distance2 = 0 /\ crop.offsetX = 0 /\ crop.offsetY = 0
        /\ crop.cropEdge = 0 /\ crop.cropWidth = 0 /\ crop.cropHeight = 0
        /\ cropState = "done"
        /\ square.width = destSizeOrDefault(destSize)
        /\ square.height = destSizeOrDefault(destSize)
        /\ square.pasted = 0

\* ---- claims on detectFace ----

Area(r) == r.width * r.height
FaceSelected == faceState \in {"leftEye", "nothing"}

\* C10: the facade selects the face of largest area, among faces of equal
\* largest area the one earliest in the list, and selects no face only when
\* the list is empty.
C10_LargestEarliestFace ==
    FaceSelected =>
        /\ found = 0 <=> faces = << >>
        /\ found # 0 =>
              /\ \A k \in 1..Len(faces) : Area(faces[k]) <= Area(faces[found])
              /\ \A k \in 1..(found - 1) : Area(faces[k]) < Area(faces[found])

\* Two faces of the same largest area but different shape were detected and
\* the first one was selected.
C10_Witness ==
    /\ faceState = "leftEye" /\ Len(faces) >= 2 /\ found = 1
    /\ Area(faces[2]) = Area(faces[1]) /\ faces[2].width # faces[1].width

\* The table cell at column x, row y; 0 outside the image.
At(T, w, h, x, y) == IF x >= 0 /\ x < w /\ y >= 0 /\ y < h THEN T[y * w + x] ELSE 0

\* The defining identity of a summed-area table over the values I.
SumTableOf(T, I, w, h) ==
    \A x \in 0..(w - 1), y \in 0..(h - 1) :
        At(T, w, h, x, y) - At(T, w, h, x - 1, y) - At(T, w, h, x, y - 1)
            + At(T, w, h, x - 1, y - 1) = I[y * w + x]

\* C1: after computeIntegralImage returns, the sum table satisfies
\* S[x,y] - S[x-1,y] - S[x,y-1] + S[x-1,y-1] = I[x,y] at every (x,y), reads
\* outside the image counting as 0, and the plane [[1,2],[3,4]] yields the sum
\* table [[1,3],[4,10]] and the squared table [[1,5],[10,30]].
C1_SumIdentity ==
    iiState = "returned" =>
        /\ Passed(args, 1) => SumTableOf(opt_integralImage, pixels, width, height)
        /\ (Passed(args, 1) /\ width = 2 /\ height = 2 /\ pixels = S1Plane)
              => opt_integralImage = [k \in 0..3 |-> <<1, 3, 4, 10>>[k + 1]]
        /\ (Passed(args, 2) /\ width = 2 /\ height = 2 /\ pixels = S1Plane)
              => opt_integralImageSquare = [k \in 0..3 |-> <<1, 5, 10, 30>>[k + 1]]

\* No output table is requested: every optional argument is omitted, undefined or null.
NoOutputRequested == \A k \in 1..4 : ~Passed(args, k)

\* C5: computeIntegralImage rejects with a usage error whenever no output
\* table is requested, whether the arguments are omitted or passed as
\* undefined/null.
C5_RejectsWithoutOutput ==
    (iiState # "ready" /\ iiState # "off" /\ NoOutputRequested) => iiState = "threw"

\* ---- claims on the eyes ----

\* The index of the detection of largest area, the earliest among equals.
LargestEarliest(es) ==
    CHOOSE k \in 1..Len(es) :
        /\ \A j \in 1..Len(es) : Area(es[j]) <= Area(es[k])
        /\ \A j \in 1..(k - 1) : Area(es[j]) < Area(es[k])

\* The result stands for the detection e: the detection itself, moved to the
\* face, in the browser; its centre in the node pipeline.
StandsFor(e) ==
    IF eyeImpl = "browser"
    THEN eyeFound = <<[x |-> e.x + rect.x, y |-> e.y + rect.y,
                       width |-> e.width, height |-> e.height]>>
    ELSE /\ ~eyeFound[1].nan
         /\ eyeFound[1].x = (2 * e.x + e.width + 1) \div 2
         /\ eyeFound[1].y = (2 * e.y + e.height + 1) \div 2

\* No eye came out: nothing in the browser, NaN in the node pipeline.
EyeAbsent == IF eyeImpl = "browser" THEN eyeFound = << >> ELSE eyeFound[1].nan

\* C11: for every non-empty list of eye detections the eye picked is the
\* detection of largest area, the earliest one on ties, and the result is
\* absent only when the list is empty, whatever the order and the number of
\* the detections.
C11_EyeIsLargestEarliest ==
    eyeState = "done" =>
        /\ EyeAbsent <=> eyes = << >>
        /\ eyes # << >> => StandsFor(eyes[LargestEarliest(eyes)])

\* ---- claims on the pipeline ----

\* What a caller can tell from the object it is handed.
Outcome(d) ==
    IF "face" \notin DOMAIN d THEN "no face"
    ELSE IF "eyes" \notin DOMAIN d THEN "no eyes"
    ELSE "found"

PipelineEnded == faceState \in {"nothing", "saved", "cropError"}
NoFace == faceState = "nothing"
NoEyes == faceState \in {"saved", "cropError"} /\ (leftEyes = << >> \/ rightEyes = << >>)

\* C12: when the face detection returns nothing, and when a face is found but
\* an eye region yields no detection, the callback is invoked with a marker of
\* that outcome, the two markers differ, no eye coordinate is NaN and no
\* exception is raised.
C12_NoFaceNoEyesReported ==
    /\ NoFace => Len(data) = 1 /\ Outcome(data[1]) = "no face"
    /\ NoEyes =>
          /\ Len(data) = 1 /\ Outcome(data[1]) = "no eyes"
          /\ faceState # "cropError"

\* ---- claims on the cascade converter ----

IsNum(t) == t.kind = "num"
AllNum(tokens, n) == Len(tokens) = n /\ \A k \in 1..n : IsNum(tokens[k])

\* The document is a cascade with every field in place: numeric width and
\* height, at least one stage, in each stage a numeric threshold and as many
\* weak classifiers (at least one) as maxWeakCount says, each of them a stump on
\* a feature of the list with four node numbers and two leaf values, and every
\* feature with at least one rectangle of five numbers.
WellFormed(doc) ==
    /\ ~doc.malformed
    /\ doc.width # << >> /\ IsNum(doc.width[1])
    /\ doc.height # << >> /\ IsNum(doc.height[1])
    /\ doc.stages # << >> /\ Len(doc.stages[1]) >= 1
    /\ \A s \in 1..Len(doc.stages[1]) :
          LET stage == doc.stages[1][s]
          IN /\ IsNum(stage.stageThreshold)
             /\ Len(stage.weakClassifiers) >= 1
             /\ stage.maxWeakCount = Num(Len(stage.weakClassifiers))
             /\ \A k \in 1..Len(stage.weakClassifiers) :
                   /\ AllNum(stage.weakClassifiers[k].internalNodes, 4)
                   /\ stage.weakClassifiers[k].internalNodes[3].v \in
                         0..(Len(doc.features) - 1)
                   /\ AllNum(stage.weakClassifiers[k].leafValues, 2)
    /\ \A f \in 1..Len(doc.features) :
          /\ Len(doc.features[f].rects) >= 1
          /\ \A r \in 1..Len(doc.features[f].rects) : AllNum(doc.features[f].rects[r], 5)

\* The rectangles of the feature a weak classifier of a well-formed cascade names.
RectsOf(doc, weak) == doc.features[weak.internalNodes[3].v + 1].rects

RECURSIVE FlatRects(_, _)
FlatRects(rects, i) == IF i > Len(rects) THEN << >> ELSE rects[i] \o FlatRects(rects, i + 1)

\* tilted, rectCount, rectCount x 5 rectangle numbers, nodeThreshold, leafLeft, leafRight
WeakLayout(doc, weak) ==
    <<weak.internalNodes[1], Num(Len(RectsOf(doc, weak)))>>
        \o FlatRects(RectsOf(doc, weak), 1)
        \o <<weak.internalNodes[4], weak.leafValues[1], weak.leafValues[2]>>

RECURSIVE WeaksLayout(_, _, _)
WeaksLayout(doc, weaks, i) ==
    IF i > Len(weaks) THEN << >>
    ELSE WeakLayout(doc, weaks[i]) \o WeaksLayout(doc, weaks, i + 1)

\* stageThreshold, weakCount, then the weak classifiers; from the stage i on.
RECURSIVE StagesLayout(_, _)
StagesLayout(doc, i) ==
    IF i > Len(doc.stages[1]) THEN << >>
    ELSE LET stage == doc.stages[1][i]
         IN <<stage.stageThreshold, Num(Len(stage.weakClassifiers))>>
               \o WeaksLayout(doc, stage.weakClassifiers, 1) \o StagesLayout(doc, i + 1)

Layout(doc) == <<doc.width[1], doc.height[1]>> \o StagesLayout(doc, 1)

\* sum over the weak classifiers of (2 + 5 rectCount + 3)
RECURSIVE WeaksLength(_, _, _)
WeaksLength(doc, weaks, i) ==
    IF i > Len(weaks) THEN 0
    ELSE 2 + 5 * Len(RectsOf(doc, weaks[i])) + 3 + WeaksLength(doc, weaks, i + 1)

\* 2 + sum over the stages of (2 + sum over its weak classifiers)
RECURSIVE LayoutLength(_, _)
LayoutLength(doc, i) ==
    IF i > Len(doc.stages[1]) THEN 2
    ELSE 2 + WeaksLength(doc, doc.stages[1][i].weakClassifiers, 1) + LayoutLength(doc, i + 1)

\* The cursor after n weak classifiers read from position c on, trusting the
\* rectCount fields; 0 when the array ends too early.
RECURSIVE WalkWeak(_, _, _)
WalkWeak(a, c, n) ==
    IF n = 0 THEN c
    ELSE IF c + 1 > Len(a) \/ ~IsNum(a[c + 1]) THEN 0
    ELSE LET after == c + 2 + 5 * a[c + 1].v + 3
         IN IF after > Len(a) + 1 THEN 0 ELSE WalkWeak(a, after, n - 1)

\* A walk over the stages from position c on ends exactly behind the last element.
RECURSIVE WalkStages(_, _)
WalkStages(a, c) ==
    IF c = Len(a) + 1 THEN TRUE
    ELSE IF c + 1 > Len(a) \/ ~IsNum(a[c + 1]) THEN FALSE
    ELSE LET after == WalkWeak(a, c + 2, a[c + 1].v)
         IN after # 0 /\ WalkStages(a, after)

Loaded == loadState \in {"printed", "error", "threw"}

\* C13: for a well-formed cascade the converter prints exactly width, height
\* and, per stage, stageThreshold, weakCount and, per weak classifier, tilted,
\* rectCount, the rectCount x 5 rectangle numbers, nodeThreshold, leafLeft and
\* leafRight; the length is 2 + sum over the stages of (2 + sum over its weak
\* classifiers of (2 + 5 rectCount + 3)), and a cursor walk that trusts the
\* weakCount and rectCount fields consumes the array exactly.
C13_CascadeLayout ==
    (Loaded /\ WellFormed(xml)) =>
        /\ loadState = "printed"
        /\ arr = Layout(xml)
        /\ Len(arr) = LayoutLength(xml, 1)
        /\ WalkStages(arr, 3)

\* C14: when the input is malformed, lacks a required field or holds a token
\* that is no number where a number is required, the converter fails without
\* printing anything; no array with an element that is not a number is ever
\* printed.
C14_NoOutputOnBadInput ==
    /\ (Loaded /\ ~WellFormed(xml)) => (loadState # "printed" /\ arr = << >>)
    /\ \A k \in 1..Len(arr) : IsNum(arr[k])

\* ---- claims on the Detector ----

\* C15: a scaleFactor of 1 or less fails at the call site: neither the
\* constructor nor detect ever forwards a scaleFactor <= 1 (100 hundredths) to
\* the multi-scale scan.
C15_NoScaleFactorUpToOne ==
    \A k \in 1..Len(forwarded) : forwarded[k].scaleFactor > 100

\* ---- claims on the primitives of cv/image ----

\* C16: every image primitive treats its inputs as read-only: no call, in
\* particular none of equalizeHist or equalizeHistogram without a destination,
\* changes a value of the caller's input pixel array.
C16_InputReadOnly == [][plane' = plane]_vars

Returned == primState = "returned"

\* The squared forward difference from pixel n to pixel m.
SquaredDifference(n, m) == (plane[m] - plane[n]) * (plane[m] - plane[n])

\* C17: gradientX and gradientY return the squared forward difference at every
\* pixel and 0 where the forward neighbour lies outside the frame: gradientX
\* is 0 in the last column of every row, gradientY is 0 in the last row.
C17_GradientZeroOutsideFrame ==
    Returned =>
        \A x \in 0..(planeWidth - 1), y \in 0..(planeHeight - 1) :
            LET n == y * planeWidth + x
            IN /\ prim = "gradientX" =>
                     out[n] = IF x = planeWidth - 1 THEN 0 ELSE SquaredDifference(n, n + 1)
               /\ prim = "gradientY" =>
                     out[n] = IF y = planeHeight - 1 THEN 0
                              ELSE SquaredDifference(n, n + planeWidth)

\* The smoothing pair of the call, [0, 0] when none is passed.
Smooth == IF opts.smooth = << >> THEN <<0, 0>> ELSE opts.smooth
\* The indices with a complete window, [before, length - after).
Centres == Smooth[1]..(Cardinality(DOMAIN plane) - Smooth[2] - 1)
\* The moving average at i, times the window size.
Average(i) == WindowSum(plane, i - Smooth[1], i + Smooth[2])

\* C18: findMaxIndex returns the index in [before, length - after) whose
\* centred moving average is maximal, the smallest such index on ties, also
\* for sequences whose averages are all zero or negative.
C18_FindMaxIsArgMax ==
    (Returned /\ Centres # {}) =>
        /\ out[1] \in Centres
        /\ \A j \in Centres : Average(j) <= Average(out[1])
        /\ \A j \in Centres : j < out[1] => Average(j) < Average(out[1])

\* C19: separableConvolve applies the vertical kernel first and the horizontal
\* kernel second; with the vertical kernel [1] it equals horizontalConvolve
\* with the horizontal kernel, and with the horizontal kernel [1] it equals
\* verticalConvolve with the vertical kernel.
C19_SeparableIsVerticalThenHorizontal ==
    Returned =>
        /\ out.separable = horizontalConvolve(out.vertical, planeWidth, planeHeight,
                                               opts.horizWeights)
        /\ opts.vertWeights = <<1>> => out.separable = out.horizontal
        /\ opts.horizWeights = <<1>> => out.separable = out.vertical

\* A 2 x 2 plane was convolved with the horizontal kernel [-1, 0, 1] and the
\* vertical kernel [1], and the result differs from the plane and from its
\* vertical convolution.
C19_Witness ==
    /\ Returned /\ prim = "separableConvolve"
    /\ planeWidth = 2 /\ planeHeight = 2
    /\ opts.horizWeights = <<-1, 0, 1>> /\ opts.vertWeights = <<1>>
    /\ out.separable = out.horizontal
    /\ out.separable # plane /\ out.separable # out.vertical
    /\ \E n \in DOMAIN plane : out.separable[n] = 255

\* ---- claims on detectEyes ----

\* v is the integer nearest to num/100 of side.
NearestTo(v, num, side) ==
    LET d == 100 * v - num * side IN -50 <= d /\ d <= 50

\* C20: for every face size detectEyes searches the left eye from 0.15 of the
\* width over 0.30 of it and from 0.25 of the height over 0.25 of it, and the
\* right eye in the mirror image (from 0.55 of the width, same extent); once
\* rounded, both regions lie inside the face and the left region ends at or
\* before the column where the right region starts.
C20_EyeRegions ==
    faceState \in {"searching", "threw"} =>
       /\ faceState = "searching"
       /\ NearestTo(leftRegion.x, 15, img.width)
       /\ NearestTo(leftRegion.width, 30, img.width)
       /\ NearestTo(leftRegion.y, 25, img.height)
       /\ NearestTo(leftRegion.height, 25, img.height)
       /\ NearestTo(rightRegion.x, 55, img.width)
       /\ rightRegion.width = leftRegion.width
       /\ rightRegion.y = leftRegion.y
       /\ rightRegion.height = leftRegion.height
       /\ roiFits(leftRegion.x, leftRegion.y, leftRegion.width, leftRegion.height,
                  img.width, img.height)
       /\ roiFits(rightRegion.x, rightRegion.y, rightRegion.width, rightRegion.height,
                  img.width, img.height)
       /\ leftRegion.x + leftRegion.width <= rightRegion.x

\* A 10 x 10 face, where 1.5 and 5.5 round up: left region 2..4, right 6..8.
C20_Witness ==
    /\ faceState = "searching"
    /\ img = [width |-> 10, height |-> 10]
    /\ leftRegion = [x |-> 2, y |-> 3, width |-> 3, height |-> 3]
    /\ rightRegion = [x |-> 6, y |-> 3, width |-> 3, height |-> 3]

\* ---- claims on the merge ----

Elements(seq) == {seq[i] : i \in 1..Len(seq)}

\* C21: for the same recorded rectangles the output with neighbors = k is a
\* subset of the output with neighbors = k - 1, for every k >= 1, k = 1 against
\* the unmerged output of neighbors = 0 included.
C21_NeighborsMonotone ==
    (scanState = "done" /\ neighbors >= 1) =>
        Elements(detections) \subseteq Elements(mergedRectangles(recorded, neighbors - 1))

\* ---- claims on the scan ----

WindowRejected == winState \in {"EdgeRejected", "Rejected"}

\* Every stage total of the window meets or exceeds its stageThreshold.
AllStagesMet ==
    \A k \in 1..Len(cascade.thresholds) :
        totalsAt(winX, winY)[k] >= cascade.thresholds[k]

\* The stages evaluated so far are 0, 1, 2, ... in this order.
InOrder == \A i \in 1..Len(evaluated) : evaluated[i] = i - 1

\* C22: per scan window the stages are evaluated in the order 0..S-1, the
\* window is Accepted exactly when every stage total meets or exceeds its
\* stageThreshold, and a rejected window (by the edge test or by the first
\* failing stage) has no later stage evaluated, never becomes Accepted and is
\* never recorded.
C22_CascadeOneWay ==
    /\ [](InOrder
          /\ (winState = "Accepted" =>
                 AllStagesMet /\ Len(evaluated) = Len(cascade.thresholds))
          /\ (winState = "Rejected" =>
                 /\ ~AllStagesMet
                 /\ totalsAt(winX, winY)[Len(evaluated)]
                        < cascade.thresholds[Len(evaluated)]
                 /\ \A k \in 1..(Len(evaluated) - 1) :
                        totalsAt(winX, winY)[k] >= cascade.thresholds[k])
          /\ (winState = "EdgeRejected" => evaluated = << >>))
    /\ [][WindowRejected =>
             /\ winState' \in {winState, "none"}
             /\ evaluated' = evaluated
             /\ recorded' = recorded]_vars

\* The origin window met stage 0 exactly and exceeded stage 1: it was accepted
\* and recorded at two scales, while the other windows were rejected.
C22_Witness ==
    /\ scanState = "done"
    /\ Len(cascade.thresholds) = 2
    /\ scene.totals = <<1, 2>>
    /\ Len(recorded) >= 2

\* The caller set every option either not at all or in its range.
GivenInRange ==
    \/ options = << >>
    \/ /\ options[1].initialScale = 0 \/ options[1].initialScale >= 100
       /\ options[1].scaleFactor = 0 \/ options[1].scaleFactor > 100
       /\ options[1].stepSize = 0 \/ options[1].stepSize >= 100

\* a < b for fractions with a positive denominator and a numerator >= 0,
\* compared by their integer parts and then by the remainders.
RECURSIVE Less(_, _)
Less(a, b) ==
    LET qa == a.num \div a.den
        qb == b.num \div b.den
        ra == a.num % a.den
        rb == b.num % b.den
    IN IF qa # qb THEN qa < qb
       ELSE IF rb = 0 THEN FALSE
       ELSE IF ra = 0 THEN TRUE
       ELSE Less([num |-> b.den, den |-> rb], [num |-> a.den, den |-> ra])

\* scale' > scale
Grows == Less(scale, scale')

\* C23: for every image and every option tuple with initialScale >= 1,
\* scaleFactor > 1 and stepSize >= 1, the defaults included, the scan ends: the
\* scale strictly grows from one pass to the next and within a pass the window
\* advances by at least one pixel.
C23_ScanTerminates ==
    /\ (detState = "new" /\ GivenInRange) ~> (scanState = "done")
    /\ [][(detState = "detecting" /\ forwarded[1].scaleFactor > 100
           /\ forwarded[1].initialScale >= 100 /\ forwarded[1].stepSize >= 100) =>
             /\ scale' # scale /\ scanState = "window" => Grows
             /\ (winState' = "none" /\ winState # "none" /\ scanState' = "window") =>
                    (winX' > winX \/ winY' > winY)]_vars

\* A scan from scale 1 that went through several scales and recorded the
\* origin window more than once.
C23_Witness ==
    /\ scanState = "done"
    /\ forwarded[1].initialScale = 100 /\ forwarded[1].scaleFactor = 120
    /\ forwarded[1].width = 2 /\ forwarded[1].height = 2
    /\ Len(recorded) >= 3

\* ---- claims on the tables of computeIntegralImage ----

\* The tables the call leaves in output buffers that held f in every cell.
TablesFrom(f) ==
    LET pixelsSobel == IF Passed(args, 4) THEN sobel(pixels, width, height) ELSE Empty
    IN IntegralLoop([sum |-> Buffer(args, 1, width, height, f),
                     square |-> Buffer(args, 2, width, height, f),
                     tilted |-> Buffer(args, 3, width, height, f),
                     sobel |-> Buffer(args, 4, width, height, f)],
                    pixels, width, height, args, pixelsSobel, 0)

TablesNow == [sum |-> opt_integralImage, square |-> opt_integralImageSquare,
              tilted |-> opt_tiltedIntegralImage, sobel |-> opt_integralImageSobel]

\* C24: the tables depend only on the plane: for every width >= 1 and height
\* >= 1 a call into buffers of one non-zero content leaves the sum, squared and
\* tilted tables that a call into buffers of another non-zero content leaves.
C24_TablesIgnoreBuffers ==
    (iiState = "returned" /\ TablesNow = TablesFrom(Garbage)) =>
        LET other == TablesFrom(Garbage + 1)
        IN /\ opt_integralImage = other.sum
           /\ opt_integralImageSquare = other.square
           /\ opt_tiltedIntegralImage = other.tilted

\* The pixel at column x, row y; 0 outside the image.
PixelAt(x, y) == IF x >= 0 /\ x < width /\ y >= 0 /\ y < height THEN pixels[y * width + x] ELSE 0

\* C25: the tilted table satisfies R[x,y] = R[x-1,y-1] + R[x+1,y-1] - R[x,y-2]
\* + I[x,y] + I[x,y-1] at every (x,y), every term outside the image being 0.
C25_TiltedRecurrence ==
    (iiState = "returned" /\ Passed(args, 3)) =>
        \A x \in 0..(width - 1), y \in 0..(height - 1) :
            At(opt_tiltedIntegralImage, width, height, x, y)
                = At(opt_tiltedIntegralImage, width, height, x - 1, y - 1)
                  + At(opt_tiltedIntegralImage, width, height, x + 1, y - 1)
                  - At(opt_tiltedIntegralImage, width, height, x, y - 2)
                  + PixelAt(x, y) + PixelAt(x, y - 1)

\* The sum of the pixels of the rectangle x1..x2, y1..y2, row after row.
RECURSIVE RowSum(_, _, _)
RowSum(x1, x2, y) ==
    IF x1 > x2 THEN 0 ELSE pixels[y * width + x1] + RowSum(x1 + 1, x2, y)
RECURSIVE RectSum(_, _, _, _)
RectSum(x1, x2, y1, y2) ==
    IF y1 > y2 THEN 0 ELSE RowSum(x1, x2, y1) + RectSum(x1, x2, y1 + 1, y2)

\* C26: for every rectangle with 1 <= x1 <= x2 < width and 1 <= y1 <= y2 <
\* height the combination T[x2,y2] - T[x1-1,y2] - T[x2,y1-1] + T[x1-1,y1-1] of
\* the sum table equals the sum of the pixels over x1..x2, y1..y2.
C26_FourCorners ==
    iiState = "returned" =>
        \A x1 \in 1..(width - 1), y1 \in 1..(height - 1) :
            \A x2 \in x1..(width - 1), y2 \in y1..(height - 1) :
                opt_integralImage[y2 * width + x2]
                    - opt_integralImage[y2 * width + x1 - 1]
                    - opt_integralImage[(y1 - 1) * width + x2]
                    + opt_integralImage[(y1 - 1) * width + x1 - 1]
                  = RectSum(x1, x2, y1, y2)

\* The sum table of a 3 x 3 plane of ones written into a reused buffer: the
\* rectangle 1..2 x 1..2 sums to 4.
C26_Witness ==
    /\ iiState = "returned" /\ width = 3 /\ height = 3
    /\ \A k \in 0..8 : pixels[k] = 1
    /\ opt_integralImage[8] - opt_integralImage[6] - opt_integralImage[2]
           + opt_integralImage[0] = 4

\* ---- claims on the node pipeline ----

\* C27: the steps of the node pipeline run in sequence: the face detection has
\* delivered a face before an eye detection starts, the right-eye detection
\* starts only from the callback of the left-eye detection, and the callback of
\* detectFace is called at most once, after both eye detections delivered.
C27_PipelineSequential ==
    /\ []((faceState \in {"leftEye", "rightEye", "saved", "cropError"} =>
              found \in 1..Len(faces))
          /\ (data # << >> => faceState \in {"saved", "cropError"}))
    /\ [][/\ faceState' = "leftEye" => faceState \in {"detecting", "leftEye"}
          /\ faceState' = "rightEye" => faceState \in {"leftEye", "rightEye"}
          /\ data # << >> => data' = data
          /\ data' # data => faceState = "rightEye"]_vars

\* Both eye detections delivered rectangles and the face was saved.
C27_Witness ==
    /\ faceState = "saved" /\ data # << >>
    /\ Len(leftEyes) >= 1 /\ Len(rightEyes) >= 1

\* C30: whenever detectFace calls its callback, the eye detections lying in
\* their regions, the reported eye points are source-image points inside the
\* selected face, the left eye is not to the right of the right eye, and the
\* distance and the angle are those of the reported points.
C30_ReportedEyes ==
    data # << >> =>
        LET d == data[1]
            l == d.eyes.left
            r == d.eyes.right
        IN /\ ~d.nan /\ ~l.nan /\ ~r.nan
           /\ d.face.x <= l.x /\ l.x <= d.face.x + d.face.width
           /\ d.face.y <= l.y /\ l.y <= d.face.y + d.face.height
           /\ d.face.x <= r.x /\ r.x <= d.face.x + d.face.width
           /\ d.face.y <= r.y /\ r.y <= d.face.y + d.face.height
           /\ l.x <= r.x
           /\ d.distance2 = calcDistance2(<<l.x, l.y>>, <<r.x, r.y>>)
           /\ d.angle = <<r.y - l.y, r.x - l.x>>

\* ---- claims on the frame loop ----

\* C28: at most one tick callback is pending at any time, whatever play or
\* playing events and animation frames occur: no second chain of ticks starts.
C28_OneTickChain == pendingTicks <= 1

\* C29: once the loop has started, a next tick is pending after every tick,
\* however the frame work ended: without a size, without a face or an eye, or
\* by throwing.
C29_TickReschedules ==
    /\ [](loopState = "running" => pendingTicks >= 1)
    /\ [][ticks' = ticks + 1 => pendingTicks' >= 1]_vars

\* A tick of app.js found both eyes, threw on detector.alignment, and its
\* successor is pending.
C29_Witness ==
    /\ loopImpl = "app" /\ frame = "threw" /\ canvasSized
    /\ ticks >= 2 /\ pendingTicks >= 1

====
